---- MODULE Spec2Model ----
(***************************************************************************)
(* Control plane of transporter: the agent registry                        *)
(* (pkg/registry/agent_registry.go), the event router (package router),    *)
(* the per-connection session handler (package controlplane) and the       *)
(* lifecycle callbacks that persist event status.                          *)
(***************************************************************************)
EXTENDS Integers, Sequences, FiniteSets, TLC

\* ------------------------------------------------------------------ bounds
\* Clock readings are 0..MaxTime.
MaxTime == 2
\* Spec: number of RouteEvent calls and of accepted connections in a run.
MaxEvents == 2
MaxConns == 1
\* SpecSessions: number of accepted connections and of RouteEvent calls.
MaxSessions == 2
MaxSends == 1
\* SpecStatus: number of status-update frames processed in a run.
MaxUpdates == 3
\* SpecIngress: number of POST /events requests and of queue messages.
MaxHttp == 2
MaxMsgs == 1
\* SpecAgent: number of event frames the agent reads in a run.
MaxHandled == 2
\* SpecAwait: number of connections upgraded in a run.
MaxAttempts == 3
\* SpecValidate: number of events submitted in a run.
MaxValidated == 2
\* Capacity of a connection's SendChan (100 in the source, scaled down).
ChanCap == 1
\* Heartbeat timeout in clock units (30 s by default, tunable, scaled down).
HeartbeatTimeout == 1
\* SpecHealth: the period of the liveness sweep in clock units (10 s by
\* default, tunable, scaled down), and the last clock reading of a run.
SweepInterval == 1
MaxHealthTime == 4

\* ------------------------------------------------------- program constants
\* NewEventRouter: MaxRetries defaults to 3.
MaxRetries == 3

AgentIds == {"a1", "a2"}
NoConn == 0
\* The {"status": "registered"} frame on a stream; event frames carry the
\* event's id (1, 2, ...).
RegisteredFrame == 0

\* Status-update frames an agent sends: execution received, manifests being
\* applied (with a log line), execution completed with a successful result,
\* and a frame that carries a message and nothing else.  "" is an absent field.
StatusInputs ==
  { [state |-> "in_progress", phase |-> "received", message |-> "",
     logLevel |-> "", result |-> ""],
    [state |-> "in_progress", phase |-> "applying", message |-> "",
     logLevel |-> "info", result |-> ""],
    [state |-> "completed", phase |-> "completed", message |-> "",
     logLevel |-> "", result |-> "success"],
    [state |-> "", phase |-> "", message |-> "applying manifests",
     logLevel |-> "", result |-> ""] }

\* Events offered to RouteEvent.  age is now - CreatedAt at the call.  A
\* well-formed k8s_resource event that outlives the run, one with TTL 0 created
\* at the instant of the call, one with TTL 0 created before the call, and a
\* script event with an empty script body.
EventInputs ==
  { [type |-> "k8s_resource", manifests |-> 1, script |-> "", rules |-> 0,
     ttl |-> MaxTime + 1, age |-> 0],
    [type |-> "k8s_resource", manifests |-> 1, script |-> "", rules |-> 0,
     ttl |-> 0, age |-> 0],
    [type |-> "k8s_resource", manifests |-> 1, script |-> "", rules |-> 0,
     ttl |-> 0, age |-> 1],
    [type |-> "script", manifests |-> 0, script |-> "", rules |-> 0,
     ttl |-> MaxTime + 1, age |-> 0] }

\* Events offered to Validate: every type tag (the three known ones, none, and
\* an unknown one) with every combination of empty and non-empty payload
\* variants.
ValidateInputs ==
  [type : {"k8s_resource", "script", "policy", "", "helm"},
   manifests : {0, 1}, script : {"", "echo"}, rules : {0, 1},
   ttl : {MaxTime + 1}, age : {0}]

VARIABLES
  now,            \* the wall clock
  agents,         \* AgentRegistry.agents: agent id -> connection (NoConn: absent)
  conns,          \* every AgentConnection created so far, with its session
  regLog,         \* registry callbacks fired, in order
  events,         \* the events submitted so far (index = submission)
  rt,             \* the goroutine running RouteEvent
  wk,             \* the router's pendingEventsWorker
  pendingEvents,  \* EventRouter.pendingEvents: agent id -> list of PendingEvent
  evlog,          \* per event: what the router did with it, in order
  ret,            \* per event: what RouteEvent returned
  store,          \* state store: event id -> persisted EventStatus
  panicked,       \* the process died of a runtime panic
  updates,        \* status-update frames the read loops have processed, in order
  total,          \* state store: the counter stats:events:total
  http,           \* POST /events requests handled so far
  station,        \* the external queue: its messages and their deliveries
  rejected,       \* the sessions that ended in await-registration
  exec            \* the agent process: its handleEvent goroutines
                  \* (handlers), the frames it wrote to its connection
                  \* (stream) and whether writes to it fail (broken)

vars == <<now, agents, conns, regLog, events, rt, wk, pendingEvents, evlog,
          ret, store, panicked, updates, total, http, station, rejected,
          exec>>

\* What the ingress handlers write, and with the status reconciler's record
\* everything the registry and the router leave alone.
ingressVars == <<total, http, station>>
handlerVars == <<updates, total, http, station, rejected, exec>>

\* ----------------------------------------------------------------- helpers
Count(s, x) == Cardinality({i \in DOMAIN s : s[i] = x})

\* ------------------------------------------------------------ model.Event
\* An event is expired from the instant created-at + TTL on.
IsExpired_atTTL(e, t) == t - e.createdAt >= e.ttl

\* Event.IsExpired: time.Since(CreatedAt) > TTL
IsExpired(e, t) == t - e.createdAt > e.ttl

\* The script body is not checked.
Validate_anyScript(e) ==
  IF e.id = 0 THEN "MISSING_EVENT_ID"
  ELSE IF e.target = "" THEN "MISSING_TARGET_AGENT"
  ELSE IF e.type = "" THEN "MISSING_EVENT_TYPE"
  ELSE IF e.type = "k8s_resource"
       THEN (IF e.manifests = 0 THEN "EMPTY_MANIFESTS" ELSE "ok")
  ELSE IF e.type = "script" THEN "ok"
  ELSE IF e.type = "policy"
       THEN (IF e.rules = 0 THEN "EMPTY_POLICY_RULES" ELSE "ok")
  ELSE "UNKNOWN_EVENT_TYPE"

\* Event.Validate
Validate(e) ==
  IF e.id = 0 THEN "MISSING_EVENT_ID"
  ELSE IF e.target = "" THEN "MISSING_TARGET_AGENT"
  ELSE IF e.type = "" THEN "MISSING_EVENT_TYPE"
  ELSE IF e.type = "k8s_resource"
       THEN (IF e.manifests = 0 THEN "EMPTY_MANIFESTS" ELSE "ok")
  ELSE IF e.type = "script"
       THEN (IF e.script = "" THEN "EMPTY_SCRIPT" ELSE "ok")
  ELSE IF e.type = "policy"
       THEN (IF e.rules = 0 THEN "EMPTY_POLICY_RULES" ELSE "ok")
  ELSE "UNKNOWN_EVENT_TYPE"

\* ------------------------------------------------------ model.EventStatus
\* An entry of the state store for an event id: the EventStatus under
\* event:status:{id} and, in indexed, the states S whose index set
\* events:state:S has the id as a member.  NoStatus: nothing saved yet.
NoStatus == [agent |-> "", state |-> "none", phase |-> "", message |-> "",
             log |-> 0, result |-> "none", indexed |-> {}]

\* NewEventStatus
NewEventStatus(agentID) ==
  [agent |-> agentID, state |-> "assigned", phase |-> "received",
   message |-> "Event assigned to agent", log |-> 0, result |-> "none",
   indexed |-> {}]

\* EventStatus.AddLog: one entry appended to the execution log
AddLog(s) == [s EXCEPT !.log = @ + 1]

\* EventStatus.UpdateState (sets state and message, appends one log entry)
UpdateState(s, state, message) ==
  AddLog([s EXCEPT !.state = state, !.message = message])

\* EventStatus.MarkExpired
MarkExpired(s) ==
  AddLog([s EXCEPT !.state = "expired",
                   !.message = "Event expired (TTL exceeded)"])

\* EventStatus.MarkFailed
MarkFailed(s) ==
  AddLog([s EXCEPT !.state = "failed", !.phase = "failed",
                   !.message = "error", !.result = "failure"])

\* EventStatus.IsTerminal
IsTerminal(s) == s.state \in {"completed", "failed", "expired"}

\* RedisStorage.SaveEventStatus: SET event:status:{id} replaces the record,
\* SADD events:state:{s.State} adds the id to the index set of the new state.
\* No other index set is written.
SaveEventStatus(st, id, s) ==
  [st EXCEPT ![id] = [s EXCEPT !.indexed = st[id].indexed \cup {s.state}]]

\* RedisStorage.ListEventsByState: SMEMBERS events:state:{state}
ListEventsByState(st, state) == {id \in DOMAIN st : state \in st[id].indexed}

\* model.ExecutionState
ExecutionStates ==
  {"created", "queued", "assigned", "in_progress", "completed", "failed",
   "expired"}

\* ------------------------------------------- router lifecycle callbacks
\* Each takes and returns the pair [store, evlog].
\* The routed callback runs twice.
OnEventRouted_twice(h, e, agentID) ==
  [store |-> SaveEventStatus(h.store, e.id,
                UpdateState(NewEventStatus(agentID), "assigned",
                            "Event routed to agent")),
   evlog |-> [h.evlog EXCEPT ![e.id] = Append(Append(@, "routed"), "routed")]]

\* controlplane.Run OnEventRouted
OnEventRouted(h, e, agentID) ==
  [store |-> SaveEventStatus(h.store, e.id,
                UpdateState(NewEventStatus(agentID), "assigned",
                            "Event routed to agent")),
   evlog |-> [h.evlog EXCEPT ![e.id] = Append(@, "routed")]]

\* controlplane.Run OnEventQueued
OnEventQueued(h, e, agentID) ==
  [store |-> SaveEventStatus(h.store, e.id,
                UpdateState(NewEventStatus(agentID), "queued",
                            "Agent offline, event queued")),
   evlog |-> [h.evlog EXCEPT ![e.id] = Append(@, "queued")]]

\* controlplane.Run OnEventExpired
OnEventExpired(h, e) ==
  [store |-> SaveEventStatus(h.store, e.id,
                MarkExpired(NewEventStatus(e.target))),
   evlog |-> [h.evlog EXCEPT ![e.id] = Append(@, "expired")]]

\* controlplane.Run OnEventFailed
OnEventFailed(h, e, reason) ==
  [store |-> SaveEventStatus(h.store, e.id,
                MarkFailed(NewEventStatus(e.target))),
   evlog |-> [h.evlog EXCEPT ![e.id] = Append(@, reason)]]

\* A step of the router that is no callback, noted in the event's log.
Note(h, e, what) ==
  [h EXCEPT !.evlog = [h.evlog EXCEPT ![e.id] = Append(@, what)]]

\* ------------------------------------------------------- agent.handleEvent
\* Event frames an agent reads.  decodes: the frame's event unmarshals into
\* an Event.  parses: ValidateManifests accepts the manifests.  applies: every
\* applyManifest of executeK8sResource succeeds.
AgentEventInputs ==
  [decodes : BOOLEAN, type : {"k8s_resource", "script", "helm"},
   manifests : {0, 1}, script : {"", "echo"}, parses : BOOLEAN,
   applies : BOOLEAN]

\* K8sExecutor.ExecuteEvent: an error, or a result with its Success.
ExecuteEvent(e) ==
  IF e.type = "k8s_resource"
    THEN IF e.applies THEN "success" ELSE "failure"
  ELSE IF e.type \in {"script", "policy"} THEN "error"
  ELSE "failure"

Update(state, phase) == [state |-> state, phase |-> phase]

\* After a failed step the handler reports it and goes on to the next step.
handleEventStep_noReturn(e, pc) ==
  IF pc = "received"
    THEN [send |-> Update("in_progress", "received"), pc |-> "validate"]
  ELSE IF pc = "validate"
    THEN IF Validate(e) # "ok"
           THEN [send |-> Update("failed", "failed"), pc |-> "manifests"]
           ELSE [send |-> Update("in_progress", "validating"),
                 pc |-> "manifests"]
  ELSE IF pc = "manifests"
    THEN IF e.type = "k8s_resource" /\ ~e.parses
           THEN [send |-> Update("failed", "failed"), pc |-> "execute"]
           ELSE [send |-> Update("in_progress", "applying"), pc |-> "execute"]
  ELSE IF pc = "execute"
    THEN IF ExecuteEvent(e) = "error"
           THEN [send |-> Update("failed", "failed"), pc |-> "verify"]
           ELSE [send |-> Update("in_progress", "verifying"), pc |-> "verify"]
  ELSE IF ExecuteEvent(e) = "success"
    THEN [send |-> Update("completed", "completed"), pc |-> "done"]
    ELSE [send |-> Update("failed", "failed"), pc |-> "done"]

\* handleEvent from one sendStatusUpdate to the next: at position pc, the
\* update sent and the position after it ("done": the handler returned).
handleEventStep(e, pc) ==
  IF pc = "received"
    THEN [send |-> Update("in_progress", "received"), pc |-> "validate"]
  ELSE IF pc = "validate"
    THEN IF Validate(e) # "ok"
           THEN [send |-> Update("failed", "failed"), pc |-> "done"]
           ELSE [send |-> Update("in_progress", "validating"),
                 pc |-> "manifests"]
  ELSE IF pc = "manifests"
    THEN IF e.type = "k8s_resource" /\ ~e.parses
           THEN [send |-> Update("failed", "failed"), pc |-> "done"]
           ELSE [send |-> Update("in_progress", "applying"), pc |-> "execute"]
  ELSE IF pc = "execute"
    THEN IF ExecuteEvent(e) = "error"
           THEN [send |-> Update("failed", "failed"), pc |-> "done"]
           ELSE [send |-> Update("in_progress", "verifying"), pc |-> "verify"]
  ELSE IF ExecuteEvent(e) = "success"
    THEN [send |-> Update("completed", "completed"), pc |-> "done"]
    ELSE [send |-> Update("failed", "failed"), pc |-> "done"]

\* ------------------------------------------------ model.AgentRegistration
\* First frames a connecting agent sends: bytes that do not decode, or a
\* registration with each required field present or missing.
RegistrationInputs ==
  [decodes : BOOLEAN, id : AgentIds \cup {""}, name : {"", "agent"},
   clusterName : {"", "prod"}, version : {"", "0.1.0"}, capabilities : {0, 1}]

\* AgentRegistration.Validate
ValidateRegistration(reg) ==
  IF reg.id = "" THEN "MISSING_AGENT_ID"
  ELSE IF reg.name = "" THEN "MISSING_AGENT_NAME"
  ELSE IF reg.clusterName = "" THEN "MISSING_CLUSTER_NAME"
  ELSE IF reg.version = "" THEN "MISSING_AGENT_VERSION"
  ELSE IF reg.capabilities = 0 THEN "MISSING_CAPABILITIES"
  ELSE "ok"

\* The {"error": ...} frame on a stream.
ErrorFrame == "error"

\* ------------------------------------------------------------ model.Agent
\* AgentRegistration.ToAgent + the AgentConnection Register builds around it,
\* with the session of handleAgentConnection; unreg is what the deferred
\* Unregister of the session's read loop returned, demoted whether the sweep
\* has ever marked the record unhealthy, backlog the number of messages on
\* SendChan when the session's loops were spawned.
NewConn(agentID, t) ==
  [agent |-> agentID, status |-> "connected", lastHeartbeat |-> t,
   sendChan |-> <<>>, chanClosed |-> FALSE, wsClosed |-> FALSE,
   reader |-> "running", writer |-> "start", wsrc |-> NoConn,
   wire |-> <<RegisteredFrame>>, unreg |-> "none", demoted |-> FALSE,
   backlog |-> 0]

\* The record of a session whose handler has returned from
\* AgentRegistry.Register and not yet written the confirmation.
Unconfirmed(c) ==
  [c EXCEPT !.wire = <<>>, !.reader = "unspawned", !.writer = "unspawned"]

\* The loops are spawned and the confirmation is left out.
Confirmed_spawnOnly(c) ==
  [c EXCEPT !.reader = "running", !.writer = "start",
            !.backlog = Len(c.sendChan)]

\* handleAgentConnection after Register: conn.WriteJSON of the registered
\* frame (its error is not looked at; it fails on a closed socket), then
\* go handleAgentReads, go handleAgentWrites.
Confirmed(c) ==
  [c EXCEPT !.wire = IF c.wsClosed THEN @ ELSE Append(@, RegisteredFrame),
            !.reader = "running", !.writer = "start",
            !.backlog = Len(c.sendChan)]

\* The timestamp is refreshed, the status is left as it is.
UpdateHeartbeat_timestampOnly(c, t) == [c EXCEPT !.lastHeartbeat = t]

\* Agent.UpdateHeartbeat
UpdateHeartbeat(c, t) ==
  [c EXCEPT !.lastHeartbeat = t,
            !.status = IF @ = "unhealthy" THEN "connected" ELSE @]

\* The record keeps the status it had.
MarkDisconnected_keepsStatus(c) == c

\* Agent.MarkDisconnected
MarkDisconnected(c) == [c EXCEPT !.status = "disconnected"]

\* The sweep reports the agent and leaves its status.
MarkUnhealthy_keepsStatus(c) == c

\* The stale agent's connection is closed as well.
MarkUnhealthy_closes(c) ==
  [c EXCEPT !.status = "unhealthy", !.demoted = TRUE,
            !.chanClosed = TRUE, !.wsClosed = TRUE]

\* Agent.MarkUnhealthy
MarkUnhealthy(c) == [c EXCEPT !.status = "unhealthy", !.demoted = TRUE]

\* AgentConnection.Close: close(SendChan); Conn.Close().  Closing a closed
\* channel panics; the caller checks chanClosed first.
Close(c) == [c EXCEPT !.chanClosed = TRUE, !.wsClosed = TRUE]

\* A full buffer takes one more message.
SendHasRoom_oneMore(c) == Len(c.sendChan) <= ChanCap

\* AgentConnection.Send on an open channel: the select's send case is ready
\* when the buffer has room, else the default case returns the full error.
SendHasRoom(c) == Len(c.sendChan) < ChanCap
SendEnqueue(c, msg) == [c EXCEPT !.sendChan = Append(@, msg)]

\* AgentConnection.Send: the connection afterwards and what the caller gets.
\* On a closed SendChan the select's send case panics (send on closed
\* channel); nothing is returned.
Send(c, msg) ==
  IF c.chanClosed THEN [conn |-> c, res |-> "panic"]
  ELSE IF SendHasRoom(c) THEN [conn |-> SendEnqueue(c, msg), res |-> "ok"]
  ELSE [conn |-> c, res |-> "full"]

\* AgentConnection.Close on c: close(ac.SendChan) panics when the channel is
\* closed already (close of closed channel).
ClosePanics(c) == c.chanClosed

\* ---------------------------------------------------------------- registry
Registered(a) == agents[a] # NoConn

\* AgentRegistry.GetAgent + the router's status test
Lookup(a) ==
  IF ~Registered(a) THEN "lookup_absent"
  ELSE IF conns[agents[a]].status # "connected" THEN "lookup_notconnected"
  ELSE "lookup_connected"

\* ------------------------------------------------------------------ router
RouterLocked == wk.pc # "idle"

\* EventRouter.GetPendingEventsCount
GetPendingEventsCount(a) == Len(pendingEvents[a])

\* The expiry is counted from the instant of queueing.
NewPending_expiresFromQueuedAt(e, t) ==
  [event |-> e.id, queuedAt |-> t, retries |-> 0, expiresAt |-> t + e.ttl]

\* PendingEvent built by queueEvent
NewPending(e, t) ==
  [event |-> e.id, queuedAt |-> t, retries |-> 0,
   expiresAt |-> e.createdAt + e.ttl]

Idle == [pc |-> "idle", ev |-> 0, conn |-> NoConn]

Init ==
  /\ now = 0
  /\ agents = [a \in AgentIds |-> NoConn]
  /\ conns = <<>>
  /\ regLog = <<>>
  /\ events = <<>>
  /\ rt = Idle
  /\ wk = [pc |-> "idle", now |-> 0, todo |-> {}, cur |-> ""]
  /\ pendingEvents = [a \in AgentIds |-> <<>>]
  /\ evlog = <<>>
  /\ ret = <<>>
  /\ store = <<>>
  /\ panicked = FALSE
  /\ updates = <<>>
  /\ total = 0
  /\ http = <<>>
  /\ station = <<>>
  /\ rejected = <<>>
  /\ exec = [handlers |-> <<>>, stream |-> <<>>, broken |-> FALSE]

\* ----------------------------------------------------------- the clock
Advance ==
  /\ ~panicked
  /\ now < MaxTime
  /\ now' = now + 1
  /\ UNCHANGED handlerVars
  /\ UNCHANGED <<agents, conns, regLog, events, rt, wk, pendingEvents, evlog,
                 ret, store, panicked>>

\* ------------------------------------------------------ registry actions
\* The status in the record under agent:{a} of the state store.  SaveAgent is
\* called by the two registry callbacks and by nothing else: OnAgentConnected
\* saves the new record (status connected), OnAgentDisconnected marks the
\* record disconnected and saves it.  "none": never saved.
RECURSIVE SavedAgentStatus(_, _, _)
SavedAgentStatus(log, cs, a) ==
  IF log = <<>> THEN "none"
  ELSE LET last == log[Len(log)]
       IN IF cs[last.conn].agent = a
            THEN (IF last.cb = "connected" THEN "connected" ELSE "disconnected")
            ELSE SavedAgentStatus(SubSeq(log, 1, Len(log) - 1), cs, a)

\* AgentRegistry.Register, the connections: an existing connection for the id
\* is closed and its record marked disconnected, the new one is appended.
RegisterConns(cs, old, a, t) ==
  Append(IF old # NoConn
           THEN [cs EXCEPT ![old] = MarkDisconnected(Close(@))]
           ELSE cs,
         NewConn(a, t))

\* onAgentConnected fires before onAgentDisconnected.
RegisterCallbacks_connectedFirst(log, old, c) ==
  LET connected == Append(log, [cb |-> "connected", conn |-> c])
  IN IF old # NoConn
       THEN Append(connected, [cb |-> "disconnected", conn |-> old])
       ELSE connected

\* AgentRegistry.Register, the callbacks: onAgentDisconnected for the
\* existing record, then onAgentConnected for the new one.
RegisterCallbacks(log, old, c) ==
  (IF old # NoConn
     THEN Append(log, [cb |-> "disconnected", conn |-> old])
     ELSE log)
  \o <<[cb |-> "connected", conn |-> c]>>

\* AgentRegistry.Register, the map: ar.agents[agent.ID] = agentConn
RegisterMap(m, a, c) == [m EXCEPT ![a] = c]

\* handleAgentConnection for a valid registration of agent a: Register, the
\* confirmation frame, and the spawn of the read and write loops.
Register(a) ==
  /\ ~panicked
  /\ LET old == agents[a]
         c == Len(conns) + 1
     IN /\ panicked' = (old # NoConn /\ ClosePanics(conns[old]))
        /\ conns' = RegisterConns(conns, old, a, now)
        /\ agents' = RegisterMap(agents, a, c)
        /\ regLog' = RegisterCallbacks(regLog, old, c)
  /\ UNCHANGED handlerVars
  /\ UNCHANGED <<now, events, rt, wk, pendingEvents, evlog, ret, store>>

\* handleAgentConnection for a valid registration of agent a, up to the
\* return of AgentRegistry.Register: the record is in the map and can be sent
\* to; the handler has written nothing yet.  Register is this step and
\* ConfirmAndSpawn with no other goroutine running between them.
RegisterInRegistry(a) ==
  /\ ~panicked
  /\ LET old == agents[a]
         c == Len(conns) + 1
     IN /\ panicked' = (old # NoConn /\ ClosePanics(conns[old]))
        /\ conns' = [RegisterConns(conns, old, a, now)
                       EXCEPT ![c] = Unconfirmed(@)]
        /\ agents' = RegisterMap(agents, a, c)
        /\ regLog' = RegisterCallbacks(regLog, old, c)
  /\ UNCHANGED handlerVars
  /\ UNCHANGED <<now, events, rt, wk, pendingEvents, evlog, ret, store>>

\* handleAgentConnection of session c after Register returned: the
\* confirmation frame and the spawn of the two loops.
ConfirmAndSpawn(c) ==
  /\ ~panicked
  /\ c \in DOMAIN conns
  /\ conns[c].reader = "unspawned"
  /\ conns' = [conns EXCEPT ![c] = Confirmed(@)]
  /\ UNCHANGED handlerVars
  /\ UNCHANGED <<now, agents, regLog, events, rt, wk, pendingEvents, evlog,
                 ret, store, panicked>>

\* handleAgentConnection on an upgraded connection whose first frame is reg.
\* ReadJSON fails: the error is logged and the connection closed.  Validate
\* fails: the error frame is written and the connection closed.  Else the
\* session is registered and its loops are spawned (Register).
handleAgentConnection(reg) ==
  IF ~reg.decodes
    THEN /\ ~panicked
         /\ rejected' = Append(rejected, [reason |-> "decode", wire |-> <<>>,
                                          closed |-> TRUE])
         /\ UNCHANGED <<now, agents, conns, regLog, events, rt, wk,
                        pendingEvents, evlog, ret, store, panicked, updates,
                        total, http, station, exec>>
  ELSE IF ValidateRegistration(reg) # "ok"
    THEN /\ ~panicked
         /\ rejected' = Append(rejected, [reason |-> ValidateRegistration(reg),
                                          wire |-> <<ErrorFrame>>,
                                          closed |-> TRUE])
         /\ UNCHANGED <<now, agents, conns, regLog, events, rt, wk,
                        pendingEvents, evlog, ret, store, panicked, updates,
                        total, http, station, exec>>
  ELSE Register(reg.id)

\* The record is closed and reported but stays in the map.
Unregister_keepsEntry(m, cs, log, a) ==
  IF m[a] = NoConn
    THEN [agents |-> m, conns |-> cs, regLog |-> log, res |-> "not_found",
          panic |-> FALSE]
    ELSE [agents |-> m,
          conns |-> [cs EXCEPT ![m[a]] = Close(MarkDisconnected(@))],
          regLog |-> Append(log, [cb |-> "disconnected", conn |-> m[a]]),
          res |-> "ok",
          panic |-> FALSE]

\* AgentRegistry.Unregister(a) on the triple <<agents, conns, regLog>>;
\* .res is its return value.
Unregister(m, cs, log, a) ==
  IF m[a] = NoConn
    THEN [agents |-> m, conns |-> cs, regLog |-> log, res |-> "not_found",
          panic |-> FALSE]
    ELSE [agents |-> [m EXCEPT ![a] = NoConn],
          conns |-> [cs EXCEPT ![m[a]] = Close(MarkDisconnected(@))],
          regLog |-> Append(log, [cb |-> "disconnected", conn |-> m[a]]),
          res |-> "ok",
          panic |-> ClosePanics(cs[m[a]])]

\* handleAgentReads of connection c returns (EOF, close or read error, at any
\* time; certainly once the socket is closed): the deferred
\* Unregister(agent.ID) and conn.Close().
ReaderExit(c) ==
  /\ ~panicked
  /\ c \in DOMAIN conns
  /\ conns[c].reader = "running"
  /\ LET u == Unregister(agents, conns, regLog, conns[c].agent)
     IN /\ agents' = u.agents
        /\ conns' = [u.conns EXCEPT ![c].reader = "exited",
                                    ![c].wsClosed = TRUE,
                                    ![c].unreg = u.res]
        /\ regLog' = u.regLog
        /\ panicked' = u.panic
  /\ UNCHANGED handlerVars
  /\ UNCHANGED <<now, events, rt, wk, pendingEvents, evlog, ret, store>>

\* handleAgentReads of connection c reads a heartbeat frame:
\* AgentRegistry.UpdateHeartbeat(agent.ID)
Heartbeat(c) ==
  /\ ~panicked
  /\ c \in DOMAIN conns
  /\ conns[c].reader = "running"
  /\ ~conns[c].wsClosed
  /\ Registered(conns[c].agent)
  /\ conns' = [conns EXCEPT ![agents[conns[c].agent]] = UpdateHeartbeat(@, now)]
  /\ UNCHANGED handlerVars
  /\ UNCHANGED <<now, agents, regLog, events, rt, wk, pendingEvents, evlog,
                 ret, store, panicked>>

\* AgentRegistry.List: the records in the map (by connection)
List == {agents[a] : a \in {x \in AgentIds : Registered(x)}}

\* AgentRegistry.ListConnected
ListConnected == {c \in List : conns[c].status = "connected"}

\* AgentRegistry.Count: len(ar.agents)
AgentCount == Cardinality({a \in AgentIds : agents[a] # NoConn})

\* AgentRegistry.checkAgentHealth, the test on one agent
Stale(c, t) == c.status = "connected" /\ t - c.lastHeartbeat > HeartbeatTimeout

\* AgentRegistry.checkAgentHealth at clock reading t, on the connections
checkAgentHealth(cs, t) ==
  [c \in DOMAIN cs |->
     IF agents[cs[c].agent] = c /\ Stale(cs[c], t)
       THEN MarkUnhealthy(cs[c])
       ELSE cs[c]]

\* AgentRegistry.checkAgentHealth: one run of the liveness sweep, at any time
Sweep ==
  /\ ~panicked
  /\ conns' = checkAgentHealth(conns, now)
  /\ UNCHANGED handlerVars
  /\ UNCHANGED <<now, agents, regLog, events, rt, wk, pendingEvents, evlog,
                 ret, store, panicked>>

\* AgentRegistry.healthChecker with the clock: the ticker fires every
\* SweepInterval, and checkAgentHealth runs at that instant.
HealthTick ==
  /\ ~panicked
  /\ now < MaxHealthTime
  /\ now' = now + 1
  /\ conns' = IF (now + 1) % SweepInterval = 0
                THEN checkAgentHealth(conns, now + 1)
                ELSE conns
  /\ UNCHANGED handlerVars
  /\ UNCHANGED <<agents, regLog, events, rt, wk, pendingEvents, evlog, ret,
                 store, panicked>>

\* Every field of the frame is stored, the empty ones too.
ApplyStatusUpdate_overwritesAll(status, f) ==
  LET merged == [status EXCEPT
                   !.state = f.state, !.phase = f.phase,
                   !.message = f.message,
                   !.result = IF f.result # "" THEN f.result ELSE @]
  IN IF f.logLevel # "" THEN AddLog(merged) ELSE merged

\* handleAgentReads, status_update: the frame's non-empty fields applied to
\* the status, and a log entry when the frame has a log level.
ApplyStatusUpdate(status, f) ==
  LET merged == [status EXCEPT
                   !.state = IF f.state # "" THEN f.state ELSE @,
                   !.phase = IF f.phase # "" THEN f.phase ELSE @,
                   !.message = IF f.message # "" THEN f.message ELSE @,
                   !.result = IF f.result # "" THEN f.result ELSE @]
  IN IF f.logLevel # "" THEN AddLog(merged) ELSE merged

\* handleAgentReads of connection c reads the status_update frame f for event
\* e: GetEventStatus or, when there is none, NewEventStatus for the session's
\* agent; the merge; SaveEventStatus.
StatusUpdate(c, e, f) ==
  /\ ~panicked
  /\ c \in DOMAIN conns
  /\ conns[c].reader = "running"
  /\ ~conns[c].wsClosed
  /\ e \in DOMAIN store
  /\ LET status == IF store[e] = NoStatus
                     THEN NewEventStatus(conns[c].agent)
                     ELSE store[e]
     IN store' = SaveEventStatus(store, e, ApplyStatusUpdate(status, f))
  /\ updates' = Append(updates, [event |-> e, conn |-> c, frame |-> f])
  /\ UNCHANGED <<ingressVars, rejected, exec>>
  /\ UNCHANGED <<now, agents, conns, regLog, events, rt, wk, pendingEvents,
                 evlog, ret, panicked>>

\* handleAgentWrites of connection c starts: registry.Get(agent.ID) yields the
\* connection whose SendChan it will drain, or the loop returns at once.
WriterStart(c) ==
  /\ ~panicked
  /\ c \in DOMAIN conns
  /\ conns[c].writer = "start"
  /\ conns' = [conns EXCEPT
       ![c].writer = IF Registered(conns[c].agent) THEN "running" ELSE "done",
       ![c].wsrc = agents[conns[c].agent]]
  /\ UNCHANGED handlerVars
  /\ UNCHANGED <<now, agents, regLog, events, rt, wk, pendingEvents, evlog,
                 ret, store, panicked>>

\* handleAgentWrites of connection c takes one message from the SendChan it
\* ranges over and writes it to its own stream; a write error ends the loop.
WriterWrite(c) ==
  /\ ~panicked
  /\ c \in DOMAIN conns
  /\ conns[c].writer = "running"
  /\ conns[conns[c].wsrc].sendChan # <<>>
  /\ LET src == conns[c].wsrc
         msg == Head(conns[src].sendChan)
         taken == [conns EXCEPT ![src].sendChan = Tail(@)]
     IN conns' = IF conns[c].wsClosed
                   THEN [taken EXCEPT ![c].writer = "done"]
                   ELSE [taken EXCEPT ![c].wire = Append(@, msg)]
  /\ UNCHANGED handlerVars
  /\ UNCHANGED <<now, agents, regLog, events, rt, wk, pendingEvents, evlog,
                 ret, store, panicked>>

\* handleAgentWrites of connection c ends: the channel is closed and drained.
WriterEnd(c) ==
  /\ ~panicked
  /\ c \in DOMAIN conns
  /\ conns[c].writer = "running"
  /\ conns[conns[c].wsrc].sendChan = <<>>
  /\ conns[conns[c].wsrc].chanClosed
  /\ conns' = [conns EXCEPT ![c].writer = "done"]
  /\ UNCHANGED handlerVars
  /\ UNCHANGED <<now, agents, regLog, events, rt, wk, pendingEvents, evlog,
                 ret, store, panicked>>

\* ---------------------------------------------------------- router actions
\* EventRouter.queueEvent on the pair h = [store, evlog] and the pending map,
\* at clock reading t; .res is its return value.
\* The entry is appended twice.
QueueAppend_twice(q, p) == Append(Append(q, p), p)

\* queueEvent: er.pendingEvents[agentID] = append(er.pendingEvents[agentID], pending)
QueueAppend(q, p) == Append(q, p)

queueEvent(h, pend, e, t) ==
  IF IsExpired(e, t)
    THEN [h |-> OnEventExpired(h, e), pending |-> pend,
          res |-> "expired_cannot_queue"]
    ELSE [h |-> OnEventQueued(Note(h, e, "enq"), e, e.target),
          pending |-> [pend EXCEPT
                         ![e.target] = QueueAppend(@, NewPending(e, t))],
          res |-> "ok"]

\* The event a submission for agent a with content in deserializes to, at the
\* present clock reading (at) and with the next id.
Decoded(a, in) ==
  [id |-> Len(events) + 1, type |-> in.type, target |-> a,
   manifests |-> in.manifests, script |-> in.script, rules |-> in.rules,
   createdAt |-> now - in.age, ttl |-> in.ttl, at |-> now]

\* RouteEvent up to the choice between queueEvent and sendEventToAgent:
\* Validate, IsExpired, registry.GetAgent and the status test.
RouteEvent(a, in) ==
  /\ ~panicked
  /\ rt.pc = "idle"
  /\ in.age <= now
  /\ LET id == Len(events) + 1
         e == Decoded(a, in)
         h0 == [store |-> Append(store, NoStatus),
                evlog |-> Append(evlog, <<>>)]
         h == IF Validate(e) # "ok" THEN OnEventFailed(h0, e, "failed")
              ELSE IF IsExpired(e, now) THEN OnEventExpired(h0, e)
              ELSE Note(h0, e, Lookup(a))
     IN /\ events' = Append(events, e)
        /\ store' = h.store
        /\ evlog' = h.evlog
        /\ ret' = Append(ret, IF Validate(e) # "ok" THEN "validation_error"
                              ELSE IF IsExpired(e, now) THEN "expired"
                              ELSE "running")
        /\ rt' = IF Validate(e) # "ok" \/ IsExpired(e, now) THEN Idle
                 ELSE [pc |-> IF Lookup(a) = "lookup_connected" THEN "get"
                                                                ELSE "queue",
                       ev |-> id, conn |-> NoConn]
  /\ UNCHANGED <<updates, rejected, exec>>
  /\ UNCHANGED <<now, agents, conns, regLog, wk, pendingEvents, panicked>>

\* sendEventToAgent -> AgentRegistry.SendToAgent: the registry.Get
RouteGet ==
  /\ ~panicked
  /\ rt.pc = "get"
  /\ LET e == events[rt.ev]
     IN IF Registered(e.target)
          THEN /\ rt' = [rt EXCEPT !.pc = "send", !.conn = agents[e.target]]
               /\ evlog' = evlog
          ELSE /\ rt' = [rt EXCEPT !.pc = "queue"]
               /\ evlog' = [evlog EXCEPT ![e.id] = Append(@, "senderr")]
  /\ UNCHANGED handlerVars
  /\ UNCHANGED <<now, agents, conns, regLog, events, wk, pendingEvents, ret,
                 store, panicked>>

\* sendEventToAgent -> AgentConnection.Send on the connection Get returned,
\* and on success the routed callback.  A send on a closed channel panics.
RouteSend ==
  /\ ~panicked
  /\ rt.pc = "send"
  /\ LET e == events[rt.ev]
         c == rt.conn
         h == [store |-> store, evlog |-> evlog]
         sent == Send(conns[c], e.id)
     IN IF sent.res = "panic"
          THEN /\ panicked' = TRUE
               /\ UNCHANGED <<conns, store, evlog, ret, rt>>
        ELSE IF sent.res = "ok"
          THEN /\ conns' = [conns EXCEPT ![c] = sent.conn]
               /\ store' = OnEventRouted(Note(h, e, "sent"), e, e.target).store
               /\ evlog' = OnEventRouted(Note(h, e, "sent"), e, e.target).evlog
               /\ ret' = [ret EXCEPT ![e.id] = "ok"]
               /\ rt' = Idle
               /\ UNCHANGED panicked
          ELSE /\ evlog' = [evlog EXCEPT ![e.id] = Append(@, "senderr")]
               /\ rt' = [rt EXCEPT !.pc = "queue"]
               /\ UNCHANGED <<conns, store, ret, panicked>>
  /\ UNCHANGED handlerVars
  /\ UNCHANGED <<now, agents, regLog, events, wk, pendingEvents>>

\* sendEventToAgent up to the return of registry.SendToAgent.  RouteEvent
\* holds no lock here: what follows the return (the routed callback) is a
\* later step of the goroutine, RouteRouted.  RouteSend is the two steps with
\* no other goroutine running between them.
RouteSendToAgent ==
  /\ ~panicked
  /\ rt.pc = "send"
  /\ LET e == events[rt.ev]
         c == rt.conn
         sent == Send(conns[c], e.id)
     IN IF sent.res = "panic"
          THEN /\ panicked' = TRUE
               /\ UNCHANGED <<conns, evlog, rt>>
        ELSE IF sent.res = "ok"
          THEN /\ conns' = [conns EXCEPT ![c] = sent.conn]
               /\ evlog' = [evlog EXCEPT ![e.id] = Append(@, "sent")]
               /\ rt' = [rt EXCEPT !.pc = "routed"]
               /\ UNCHANGED panicked
          ELSE /\ evlog' = [evlog EXCEPT ![e.id] = Append(@, "senderr")]
               /\ rt' = [rt EXCEPT !.pc = "queue"]
               /\ UNCHANGED <<conns, panicked>>
  /\ UNCHANGED handlerVars
  /\ UNCHANGED <<now, agents, regLog, events, wk, pendingEvents, ret, store>>

\* sendEventToAgent after registry.SendToAgent returned nil: the routed
\* callback, and the return to RouteEvent's caller.
RouteRouted ==
  /\ ~panicked
  /\ rt.pc = "routed"
  /\ LET e == events[rt.ev]
         h == [store |-> store, evlog |-> evlog]
     IN /\ store' = OnEventRouted(h, e, e.target).store
        /\ evlog' = OnEventRouted(h, e, e.target).evlog
        /\ ret' = [ret EXCEPT ![e.id] = "ok"]
        /\ rt' = Idle
  /\ UNCHANGED handlerVars
  /\ UNCHANGED <<now, agents, conns, regLog, events, wk, pendingEvents,
                 panicked>>

\* RouteEvent's call of queueEvent; it waits for the router lock.
RouteQueue ==
  /\ ~panicked
  /\ rt.pc = "queue"
  /\ ~RouterLocked
  /\ LET e == events[rt.ev]
         q == queueEvent([store |-> store, evlog |-> evlog], pendingEvents,
                         e, now)
     IN /\ store' = q.h.store
        /\ evlog' = q.h.evlog
        /\ pendingEvents' = q.pending
        /\ ret' = [ret EXCEPT ![e.id] = q.res]
        /\ rt' = Idle
  /\ UNCHANGED handlerVars
  /\ UNCHANGED <<now, agents, conns, regLog, events, wk, panicked>>

\* A delivered entry is kept in the bucket.
AfterDelivered_keep(remaining, p) == Append(remaining, p)

\* processPendingEvents: "Successfully sent - remove from pending"
AfterDelivered(remaining, p) == remaining

\* No delivery is attempted: an entry that is not dropped is kept.
ScanEntry_noDelivery(a, p, t, acc) ==
  LET e == events[p.event]
  IN IF t > p.expiresAt
       THEN [acc EXCEPT !.h = OnEventExpired(@, e)]
     ELSE IF p.retries >= MaxRetries
       THEN [acc EXCEPT !.h = OnEventFailed(@, e, "max retries exceeded")]
     ELSE [acc EXCEPT !.remaining = Append(@, p)]

\* An entry is dropped as expired from the instant expires-at on.
ScanEntry_expiredAtTTL(a, p, t, acc) ==
  LET e == events[p.event]
  IN IF t >= p.expiresAt
       THEN [acc EXCEPT !.h = OnEventExpired(@, e)]
     ELSE IF p.retries >= MaxRetries
       THEN [acc EXCEPT !.h = OnEventFailed(@, e, "max retries exceeded")]
     ELSE IF ~Registered(a) \/ acc.conns[agents[a]].status # "connected"
       THEN [acc EXCEPT !.remaining = Append(@, p)]
     ELSE IF SendHasRoom(acc.conns[agents[a]])
       THEN [acc EXCEPT
               !.conns = [@ EXCEPT ![agents[a]] = SendEnqueue(@, e.id)],
               !.h = OnEventRouted(Note(@, e, "sent"), e, a),
               !.remaining = AfterDelivered(@, p)]
     ELSE [acc EXCEPT !.h = Note(@, e, "retry_senderr"), !.blocked = TRUE]

\* A pass that finds the agent offline counts as a retry.
ScanEntry_offlineCountsRetry(a, p, t, acc) ==
  LET e == events[p.event]
  IN IF t > p.expiresAt
       THEN [acc EXCEPT !.h = OnEventExpired(@, e)]
     ELSE IF p.retries >= MaxRetries
       THEN [acc EXCEPT !.h = OnEventFailed(@, e, "max retries exceeded")]
     ELSE IF ~Registered(a) \/ acc.conns[agents[a]].status # "connected"
       THEN [acc EXCEPT !.remaining = Append(@, [p EXCEPT !.retries = @ + 1])]
     ELSE IF SendHasRoom(acc.conns[agents[a]])
       THEN [acc EXCEPT
               !.conns = [@ EXCEPT ![agents[a]] = SendEnqueue(@, e.id)],
               !.h = OnEventRouted(Note(@, e, "sent"), e, a),
               !.remaining = AfterDelivered(@, p)]
     ELSE [acc EXCEPT !.h = Note(@, e, "retry_senderr"), !.blocked = TRUE]

\* An entry whose agent is not connected is dropped from the bucket.
ScanEntry_dropsOffline(a, p, t, acc) ==
  LET e == events[p.event]
  IN IF t > p.expiresAt
       THEN [acc EXCEPT !.h = OnEventExpired(@, e)]
     ELSE IF p.retries >= MaxRetries
       THEN [acc EXCEPT !.h = OnEventFailed(@, e, "max retries exceeded")]
     ELSE IF ~Registered(a) \/ acc.conns[agents[a]].status # "connected"
       THEN acc
     ELSE IF SendHasRoom(acc.conns[agents[a]])
       THEN [acc EXCEPT
               !.conns = [@ EXCEPT ![agents[a]] = SendEnqueue(@, e.id)],
               !.h = OnEventRouted(Note(@, e, "sent"), e, a),
               !.remaining = AfterDelivered(@, p)]
     ELSE [acc EXCEPT !.h = Note(@, e, "retry_senderr"), !.blocked = TRUE]

\* processPendingEvents: the body of the inner loop for the entry p of agent
\* a's bucket.  acc = [remaining, conns, h, blocked].  When the delivery fails,
\* sendEventToAgent calls queueEvent, which locks er.mu, the lock
\* processPendingEvents holds: the worker blocks there for good.
ScanEntry(a, p, t, acc) ==
  LET e == events[p.event]
  IN IF t > p.expiresAt
       THEN [acc EXCEPT !.h = OnEventExpired(@, e)]
     ELSE IF p.retries >= MaxRetries
       THEN [acc EXCEPT !.h = OnEventFailed(@, e, "max retries exceeded")]
     ELSE IF ~Registered(a) \/ acc.conns[agents[a]].status # "connected"
       THEN [acc EXCEPT !.remaining = Append(@, p)]
     ELSE IF SendHasRoom(acc.conns[agents[a]])
       THEN [acc EXCEPT
               !.conns = [@ EXCEPT ![agents[a]] = SendEnqueue(@, e.id)],
               !.h = OnEventRouted(Note(@, e, "sent"), e, a),
               !.remaining = AfterDelivered(@, p)]
     ELSE [acc EXCEPT !.h = Note(@, e, "retry_senderr"), !.blocked = TRUE]

\* processPendingEvents: the inner loop over one bucket
RECURSIVE ScanBucket(_, _, _, _)
ScanBucket(a, entries, t, acc) ==
  IF entries = <<>> \/ acc.blocked
    THEN acc
    ELSE ScanBucket(a, Tail(entries), t, ScanEntry(a, Head(entries), t, acc))

\* processPendingEvents starts: er.mu.Lock(), now := time.Now(), and the range
\* over the buckets of the map.
TickBegin ==
  /\ ~panicked
  /\ wk.pc = "idle"
  /\ \E a \in AgentIds : pendingEvents[a] # <<>>
  /\ wk' = [pc |-> "tick", now |-> now,
            todo |-> {a \in AgentIds : pendingEvents[a] # <<>>}, cur |-> ""]
  /\ UNCHANGED handlerVars
  /\ UNCHANGED <<now, agents, conns, regLog, events, rt, pendingEvents, evlog,
                 ret, store, panicked>>

\* processPendingEvents: one iteration of the outer loop (the map is ranged
\* over in no fixed order), and after the last one the deferred er.mu.Unlock().
ProcessBucket(a) ==
  /\ ~panicked
  /\ wk.pc = "tick"
  /\ a \in wk.todo
  /\ LET acc == ScanBucket(a, pendingEvents[a], wk.now,
                           [remaining |-> <<>>, conns |-> conns,
                            h |-> [store |-> store, evlog |-> evlog],
                            blocked |-> FALSE])
         rest == wk.todo \ {a}
     IN /\ conns' = acc.conns
        /\ store' = acc.h.store
        /\ evlog' = acc.h.evlog
        /\ IF acc.blocked
             THEN /\ wk' = [wk EXCEPT !.pc = "blocked", !.cur = a]
                  /\ UNCHANGED pendingEvents
             ELSE /\ pendingEvents' = [pendingEvents EXCEPT ![a] = acc.remaining]
                  /\ wk' = IF rest = {}
                             THEN [pc |-> "idle", now |-> 0, todo |-> {},
                                   cur |-> ""]
                             ELSE [wk EXCEPT !.todo = rest]
  /\ UNCHANGED handlerVars
  /\ UNCHANGED <<now, agents, regLog, events, rt, ret, panicked>>

\* EventRouter.ClearPendingEvents
ClearPendingEvents(a) ==
  /\ ~panicked
  /\ ~RouterLocked
  /\ pendingEvents[a] # <<>>
  /\ pendingEvents' = [pendingEvents EXCEPT ![a] = <<>>]
  /\ evlog' = [e \in DOMAIN evlog |->
                 IF \E i \in DOMAIN pendingEvents[a] :
                      pendingEvents[a][i].event = e
                   THEN Append(evlog[e], "cleared")
                   ELSE evlog[e]]
  /\ UNCHANGED handlerVars
  /\ UNCHANGED <<now, agents, conns, regLog, events, rt, wk, ret, store,
                 panicked>>

\* Every step but the accepting of a connection and of an event.
Steps ==
  \/ Advance
  \/ \E c \in DOMAIN conns : ReaderExit(c)
  \/ \E c \in DOMAIN conns : Heartbeat(c)
  \/ Sweep
  \/ \E c \in DOMAIN conns : WriterStart(c)
  \/ \E c \in DOMAIN conns : WriterWrite(c)
  \/ \E c \in DOMAIN conns : WriterEnd(c)
  \/ RouteGet
  \/ RouteSend
  \/ RouteQueue
  \/ TickBegin
  \/ \E a \in AgentIds : ProcessBucket(a)
  \/ \E a \in AgentIds : ClearPendingEvents(a)

\* The router with one session per run.
Next ==
  \/ Steps
  \/ Len(conns) < MaxConns /\ \E a \in AgentIds : Register(a)
  \/ Len(events) < MaxEvents /\ \E a \in AgentIds, in \in EventInputs :
                                   RouteEvent(a, in) /\ UNCHANGED ingressVars

Spec == Init /\ [][Next]_vars

\* The registry with several sessions per run and fewer events.
NextSessions ==
  \/ Steps
  \/ Len(conns) < MaxSessions /\ \E a \in AgentIds : Register(a)
  \/ Len(events) < MaxSends /\ \E a \in AgentIds, in \in EventInputs :
                                  RouteEvent(a, in) /\ UNCHANGED ingressVars

SpecSessions == Init /\ [][NextSessions]_vars

\* The router, one session and the clock, with the scheduling the runtime
\* gives: the wall clock advances, the retry ticker fires every retry
\* interval, and a goroutine that can take its next step takes it.  A
\* goroutine waiting for er.mu gets it once it is free again and again
\* (sync.RWMutex does not starve a waiter, and ticks are a retry interval
\* apart): strong fairness for RouteQueue.
NextRetry ==
  \/ Advance
  \/ Len(conns) < MaxConns /\ \E a \in AgentIds : Register(a)
  \/ Len(events) < MaxEvents /\ \E a \in AgentIds, in \in EventInputs :
                                   RouteEvent(a, in) /\ UNCHANGED ingressVars
  \/ RouteGet
  \/ RouteSend
  \/ RouteQueue
  \/ \E c \in DOMAIN conns : WriterStart(c)
  \/ \E c \in DOMAIN conns : WriterWrite(c)
  \/ TickBegin
  \/ \E a \in AgentIds : ProcessBucket(a)
  \/ \E a \in AgentIds : ClearPendingEvents(a)

SpecRetry ==
  /\ Init
  /\ [][NextRetry]_vars
  /\ WF_vars(Advance)
  /\ WF_vars(\E c \in DOMAIN conns : WriterStart(c))
  /\ WF_vars(\E c \in DOMAIN conns : WriterWrite(c))
  /\ WF_vars(RouteGet)
  /\ WF_vars(RouteSend)
  /\ SF_vars(RouteQueue)
  /\ WF_vars(TickBegin)
  /\ WF_vars(\E a \in AgentIds : ProcessBucket(a))

\* The sessions of handleAgentConnection and the router's sends, with the
\* scheduling the runtime gives a write loop: once spawned it starts, and it
\* takes a message, or sees the close, whenever the channel it ranges over has
\* one.  When a read loop returns is up to the agent.
NextWriters ==
  \/ Len(conns) < MaxSessions /\ \E a \in AgentIds : Register(a)
  \/ \E c \in DOMAIN conns : ReaderExit(c)
  \/ \E c \in DOMAIN conns : WriterStart(c)
  \/ \E c \in DOMAIN conns : WriterWrite(c)
  \/ \E c \in DOMAIN conns : WriterEnd(c)
  \/ Len(events) < MaxSends /\ \E a \in AgentIds, in \in EventInputs :
                                  RouteEvent(a, in) /\ UNCHANGED ingressVars
  \/ RouteGet
  \/ RouteSend
  \/ RouteQueue

SpecWriters ==
  /\ Init
  /\ [][NextWriters]_vars
  /\ \A c \in 1..MaxSessions :
       /\ WF_vars(WriterStart(c))
       /\ WF_vars(WriterWrite(c))
       /\ WF_vars(WriterEnd(c))
  /\ WF_vars(RouteGet)
  /\ WF_vars(RouteSend)
  /\ WF_vars(RouteQueue)

\* agent.Run's read loop takes an event frame off the connection and spawns
\* handleEvent for it; handleEvent unmarshals the event and returns at once if
\* that fails.  The event's id is the handler's number.
AgentReadEvent(in) ==
  /\ exec' = [exec EXCEPT !.handlers =
       Append(@, [event |-> [id |-> Len(exec.handlers) + 1, target |-> "a1",
                             type |-> in.type, manifests |-> in.manifests,
                             script |-> in.script, rules |-> 0,
                             parses |-> in.parses, applies |-> in.applies],
                  decoded |-> in.decodes,
                  pc |-> IF in.decodes THEN "received" ELSE "done",
                  emitted |-> <<>>])]
  /\ UNCHANGED <<now, agents, conns, regLog, events, rt, wk, pendingEvents,
                 evlog, ret, store, panicked, updates, total, http, station,
                 rejected>>

\* sendStatusUpdate by handler h: conn.WriteJSON; a write error is logged.
sendStatusUpdate(x, h, u) ==
  [x EXCEPT !.handlers[h].emitted = Append(@, u),
            !.stream = IF x.broken THEN @
                       ELSE Append(@, [handler |-> h, update |-> u])]

\* handleEvent of handler h runs up to and including its next
\* sendStatusUpdate.
handleEvent(h) ==
  /\ h \in DOMAIN exec.handlers
  /\ exec.handlers[h].pc # "done"
  /\ \E s \in {handleEventStep(exec.handlers[h].event, exec.handlers[h].pc)} :
       exec' = [sendStatusUpdate(exec, h, s.send)
                  EXCEPT !.handlers[h].pc = s.pc]
  /\ UNCHANGED <<now, agents, conns, regLog, events, rt, wk, pendingEvents,
                 evlog, ret, store, panicked, updates, total, http, station,
                 rejected>>

\* The agent's connection fails: every later write returns an error.
ConnBreak ==
  /\ ~exec.broken
  /\ exec' = [exec EXCEPT !.broken = TRUE]
  /\ UNCHANGED <<now, agents, conns, regLog, events, rt, wk, pendingEvents,
                 evlog, ret, store, panicked, updates, total, http, station,
                 rejected>>

\* A delivery next to the session's loops: the router's goroutine, the write
\* loop and the read loop, which takes a status update for an event only
\* after the event's frame was written to the agent's stream.
NextRouted ==
  \/ Len(conns) < MaxConns /\ \E a \in AgentIds : Register(a)
  \/ Len(events) < MaxSends /\ \E a \in AgentIds, in \in EventInputs :
                                  RouteEvent(a, in) /\ UNCHANGED ingressVars
  \/ RouteGet
  \/ RouteSendToAgent
  \/ RouteRouted
  \/ RouteQueue
  \/ \E c \in DOMAIN conns : WriterStart(c)
  \/ \E c \in DOMAIN conns : WriterWrite(c)
  \/ Len(updates) < MaxUpdates
       /\ \E c \in DOMAIN conns, e \in DOMAIN store, f \in StatusInputs :
            /\ \E k \in DOMAIN conns[c].wire :
                 k > 1 /\ conns[c].wire[k] = e
            /\ StatusUpdate(c, e, f)

SpecRouted == Init /\ [][NextRouted]_vars

\* Sessions whose handler is a goroutine of its own: events are routed while
\* a handler is between Register and the confirmation.
NextConfirm ==
  \/ Len(conns) < MaxSessions /\ \E a \in AgentIds : RegisterInRegistry(a)
  \/ \E c \in DOMAIN conns : ConfirmAndSpawn(c)
  \/ \E c \in DOMAIN conns : ReaderExit(c)
  \/ \E c \in DOMAIN conns : WriterStart(c)
  \/ \E c \in DOMAIN conns : WriterWrite(c)
  \/ \E c \in DOMAIN conns : WriterEnd(c)
  \/ Len(events) < MaxSends /\ \E a \in AgentIds, in \in EventInputs :
                                  RouteEvent(a, in) /\ UNCHANGED ingressVars
  \/ RouteGet
  \/ RouteSend
  \/ RouteQueue

SpecConfirm == Init /\ [][NextConfirm]_vars

\* The agent process: event frames of every shape, handled concurrently.
NextAgent ==
  \/ Len(exec.handlers) < MaxHandled
       /\ \E in \in AgentEventInputs : AgentReadEvent(in)
  \/ \E h \in DOMAIN exec.handlers : handleEvent(h)
  \/ ConnBreak

SpecAgent == Init /\ [][NextAgent]_vars

\* The sessions from the upgrade on: every first frame an agent may send.
NextAwait ==
  \/ Len(conns) + Len(rejected) < MaxAttempts
       /\ \E reg \in RegistrationInputs : handleAgentConnection(reg)
  \/ \E c \in DOMAIN conns : ReaderExit(c)
  \/ \E c \in DOMAIN conns : WriterStart(c)
  \/ \E c \in DOMAIN conns : WriterEnd(c)

SpecAwait == Init /\ [][NextAwait]_vars

\* The router given events of every shape, for a named agent or for none.
NextValidate ==
  \/ Len(events) < MaxValidated
       /\ \E a \in AgentIds \cup {""}, in \in ValidateInputs :
            RouteEvent(a, in) /\ UNCHANGED ingressVars
  \/ RouteQueue

SpecValidate == Init /\ [][NextValidate]_vars

\* ----------------------------------------------------------------- ingress
\* The counter is bumped by the consumer and by its handler.
IncrementEventCount_twice(n) == n + 2

\* RedisStorage.IncrementEventCount: INCR stats:events:total
IncrementEventCount(n) == n + 1

\* The /events handler for a POST whose body decodes to an event for agent a:
\* 400 when Validate fails; else the counter and the call of RouteEvent, whose
\* return value decides between 202 and 500.
HttpEvents(a, in) ==
  /\ ~panicked
  /\ rt.pc = "idle"
  /\ in.age <= now
  /\ IF Validate(Decoded(a, in)) # "ok"
       THEN /\ http' = Append(http, [event |-> 0])
            /\ UNCHANGED <<now, agents, conns, regLog, events, rt, wk,
                           pendingEvents, evlog, ret, store, panicked,
                           updates, total>>
       ELSE /\ http' = Append(http, [event |-> Len(events) + 1])
            /\ total' = IncrementEventCount(total)
            /\ RouteEvent(a, in)
  /\ UNCHANGED <<station, rejected, exec>>

\* The response to the i-th POST.
HttpCode(i) ==
  IF http[i].event = 0 THEN "400"
  ELSE IF ret[http[i].event] = "ok" THEN "202"
  ELSE IF ret[http[i].event] = "running" THEN "pending"
  ELSE "500"

\* MemphisQueue.ProduceEvent by a producer: a message on the station that
\* holds a serialized event for agent a (or, from a producer of another kind,
\* bytes that do not deserialize).
ProduceEvent(a, in, wellFormed) ==
  /\ ~panicked
  /\ in.age <= now
  /\ station' = Append(station,
                       [target |-> a, body |-> in, createdAt |-> now - in.age,
                        wellFormed |-> wellFormed, deliveries |-> <<>>,
                        acked |-> FALSE])
  /\ UNCHANGED <<now, agents, conns, regLog, events, rt, wk, pendingEvents,
                 evlog, ret, store, panicked, updates, total, http,
                 rejected, exec>>

\* MemphisQueue.ConsumeEvents gets message m (for the first time, or again
\* after a handler error): a message that does not deserialize is acked and
\* dropped; else the handler bumps the counter and calls RouteEvent.
ConsumeEvents(m) ==
  /\ ~panicked
  /\ rt.pc = "idle"
  /\ m \in DOMAIN station
  /\ ~station[m].acked
  /\ IF station[m].deliveries = <<>>
       THEN TRUE
       ELSE ret[station[m].deliveries[Len(station[m].deliveries)]]
              \notin {"running", "ok"}
  /\ IF ~station[m].wellFormed
       THEN /\ station' = [station EXCEPT ![m].acked = TRUE]
            /\ UNCHANGED <<now, agents, conns, regLog, events, rt, wk,
                           pendingEvents, evlog, ret, store, panicked,
                           updates, total>>
       ELSE /\ station' = [station EXCEPT
                             ![m].deliveries = Append(@, Len(events) + 1)]
            /\ total' = IncrementEventCount(total)
            /\ RouteEvent(station[m].target,
                          [station[m].body EXCEPT
                             !.age = now - station[m].createdAt])
  /\ UNCHANGED <<http, rejected, exec>>

\* The message is acked whatever the handler returned.
HandlerReturnedNil_anyReturn(m) ==
  /\ station[m].deliveries # <<>>
  /\ ret[station[m].deliveries[Len(station[m].deliveries)]] # "running"

\* ConsumeEvents: "if err := handler(&event); err != nil { continue }" for the
\* latest delivery of message m: the handler returns what RouteEvent returned.
HandlerReturnedNil(m) ==
  /\ station[m].deliveries # <<>>
  /\ ret[station[m].deliveries[Len(station[m].deliveries)]] = "ok"

\* ConsumeEvents: the handler returned nil, msg.Ack()
Ack(m) ==
  /\ ~panicked
  /\ m \in DOMAIN station
  /\ ~station[m].acked
  /\ HandlerReturnedNil(m)
  /\ station' = [station EXCEPT ![m].acked = TRUE]
  /\ UNCHANGED <<now, agents, conns, regLog, events, rt, wk, pendingEvents,
                 evlog, ret, store, panicked, updates, total, http,
                 rejected, exec>>

\* The two ingress paths in front of the router.
NextIngress ==
  \/ Advance
  \/ Len(conns) < MaxConns /\ \E a \in AgentIds : Register(a)
  \/ Len(http) < MaxHttp /\ Len(events) < MaxEvents
       /\ \E a \in AgentIds, in \in EventInputs : HttpEvents(a, in)
  \/ Len(station) < MaxMsgs
       /\ \E a \in AgentIds, in \in EventInputs, w \in BOOLEAN :
            ProduceEvent(a, in, w)
  \/ Len(events) < MaxEvents /\ \E m \in DOMAIN station : ConsumeEvents(m)
  \/ \E m \in DOMAIN station : Ack(m)
  \/ RouteGet
  \/ RouteSend
  \/ RouteQueue

SpecIngress == Init /\ [][NextIngress]_vars

\* One session, the router and the status reconciler.
NextStatus ==
  \/ Len(conns) < MaxConns /\ \E a \in AgentIds : Register(a)
  \/ Len(events) < MaxSends /\ \E a \in AgentIds, in \in EventInputs :
                                  RouteEvent(a, in) /\ UNCHANGED ingressVars
  \/ RouteGet
  \/ RouteSend
  \/ RouteQueue
  \/ Len(updates) < MaxUpdates
       /\ \E c \in DOMAIN conns, e \in DOMAIN store, f \in StatusInputs :
            StatusUpdate(c, e, f)

SpecStatus == Init /\ [][NextStatus]_vars

\* The registry alone, its liveness sweep run by the ticker.
NextHealth ==
  \/ HealthTick
  \/ Len(conns) < MaxSessions /\ \E a \in AgentIds : Register(a)
  \/ \E c \in DOMAIN conns : ReaderExit(c)
  \/ \E c \in DOMAIN conns : Heartbeat(c)

SpecHealth == Init /\ [][NextHealth]_vars

\* ================================================================ claims
Prefix(s, p) == Len(s) >= Len(p) /\ SubSeq(s, 1, Len(p)) = p
Has(s, x) == \E i \in DOMAIN s : s[i] = x
\* Entries of the bucket q that hold event e.
CopiesIn(q, e) == Cardinality({i \in DOMAIN q : q[i].event = e})
InPending(e) == \E a \in AgentIds : CopiesIn(pendingEvents[a], e) > 0
\* Places event e takes in outbound queues, and on streams.
ChanCopies(e) ==
  Cardinality(UNION {{<<c, i>> : i \in {j \in DOMAIN conns[c].sendChan :
                                          conns[c].sendChan[j] = e}} :
                     c \in DOMAIN conns})
WireCopies(e) ==
  Cardinality(UNION {{<<c, i>> : i \in {j \in DOMAIN conns[c].wire :
                                          conns[c].wire[j] = e}} :
                     c \in DOMAIN conns})
\* now > created-at + TTL, in the words of the specification.
PastTTL(e, t) == t > e.createdAt + e.ttl

C2_RetriesCountFailedDeliveries ==
  \A a \in AgentIds : \A i \in DOMAIN pendingEvents[a] :
    pendingEvents[a][i].retries =
      Count(evlog[pendingEvents[a][i].event], "retry_senderr")

\* C3: RouteEvent of a valid event, unexpired throughout the call, whose target
\* is absent from the registry or not connected: one PendingEvent appended to
\* the target's bucket (and to no other), queued fired once, no send attempted,
\* success returned.
C3_Case(e) ==
  /\ evlog[e] # <<>>
  /\ evlog[e][1] \in {"lookup_absent", "lookup_notconnected"}
  /\ ret[e] # "running"
  /\ ~(ret[e] = "expired_cannot_queue" /\ PastTTL(events[e], now))

C3_QueuedWhenNotConnected ==
  \A e \in DOMAIN events :
    C3_Case(e) =>
      /\ ret[e] = "ok"
      /\ Prefix(evlog[e], <<evlog[e][1], "enq", "queued">>)
      /\ Count(evlog[e], "queued") = 1
      /\ Len(evlog[e]) = 3 =>
           /\ CopiesIn(pendingEvents[events[e].target], e) = 1
           /\ \A a \in AgentIds \ {events[e].target} :
                CopiesIn(pendingEvents[a], e) = 0
           /\ ChanCopies(e) + WireCopies(e) = 0

C3_Witness ==
  \E e1, e2 \in DOMAIN events :
    /\ C3_Case(e1) /\ evlog[e1] = <<"lookup_absent", "enq", "queued">>
    /\ C3_Case(e2) /\ evlog[e2] = <<"lookup_notconnected", "enq", "queued">>

\* C4: RouteEvent of a valid event, unexpired throughout the call, whose target
\* is connected makes one SendToAgent call.  If it succeeds, routed fires once
\* and the event is never enqueued; if it fails, the event is enqueued, queued
\* fires once and routed has not fired; RouteEvent returns success.
C4_Case(e) ==
  /\ evlog[e] # <<>>
  /\ evlog[e][1] = "lookup_connected"
  /\ ret[e] # "running"
  /\ ~(ret[e] = "expired_cannot_queue" /\ PastTTL(events[e], now))

C4_SendOrQueue ==
  \A e \in DOMAIN events :
    C4_Case(e) =>
      /\ ret[e] = "ok"
      /\ \/ /\ evlog[e] = <<"lookup_connected", "sent", "routed">>
            /\ ChanCopies(e) + WireCopies(e) <= 1
            /\ ~InPending(e)
         \/ /\ Prefix(evlog[e], <<"lookup_connected", "senderr", "enq", "queued">>)
            /\ Count(evlog[e], "queued") = 1
            /\ Len(evlog[e]) = 4 =>
                 /\ CopiesIn(pendingEvents[events[e].target], e) = 1
                 /\ ChanCopies(e) + WireCopies(e) = 0

C4_Witness ==
  \E e1, e2 \in DOMAIN events :
    /\ C4_Case(e1) /\ evlog[e1] = <<"lookup_connected", "sent", "routed">>
    /\ C4_Case(e2)
    /\ evlog[e2] = <<"lookup_connected", "senderr", "enq", "queued">>

\* C5: RouteEvent of an event that fails Validate fires failed once and no
\* other callback, returns the validation error, and leaves the pending map
\* and every outbound queue as they were.
Malformed(e) ==
  \/ e.id = 0 \/ e.target = "" \/ e.type = ""
  \/ e.type \notin {"k8s_resource", "script", "policy"}
  \/ e.type = "k8s_resource" /\ e.manifests = 0
  \/ e.type = "script" /\ e.script = ""
  \/ e.type = "policy" /\ e.rules = 0

C5_ValidationFailure ==
  [][\A e \in DOMAIN events' :
       (e \notin DOMAIN events /\ Malformed(events'[e])) =>
         /\ evlog'[e] = <<"failed">>
         /\ ret'[e] = "validation_error"
         /\ pendingEvents' = pendingEvents
         /\ conns' = conns
         /\ \A d \in DOMAIN events : evlog'[d] = evlog[d]]_vars

C5_Witness ==
  \E e \in DOMAIN events :
    /\ Malformed(events[e])
    /\ ret[e] = "validation_error"
    /\ \E a \in AgentIds : pendingEvents[a] # <<>>

\* C6: RouteEvent of a valid event with now > created-at + TTL fires expired
\* once, returns the expired error and neither enqueues nor sends the event;
\* when the expiry is found by the re-check in queueEvent, expired fires once,
\* no PendingEvent is appended and queued does not fire.  Nothing else is
\* reported expired, and no entry is enqueued past its TTL.
C6_ExpiredRejected ==
  /\ \A e \in DOMAIN events :
       /\ (~Malformed(events[e]) /\ PastTTL(events[e], events[e].at)) =>
            ret[e] = "expired"
       /\ ret[e] = "expired" =>
            /\ PastTTL(events[e], events[e].at)
            /\ evlog[e] = <<"expired">>
            /\ ~InPending(e)
            /\ ChanCopies(e) + WireCopies(e) = 0
       /\ ret[e] = "expired_cannot_queue" =>
            /\ PastTTL(events[e], now)
            /\ Count(evlog[e], "expired") = 1
            /\ evlog[e][Len(evlog[e])] = "expired"
            /\ ~Has(evlog[e], "enq") /\ ~Has(evlog[e], "queued")
            /\ ~Has(evlog[e], "sent") /\ ~Has(evlog[e], "routed")
            /\ ~InPending(e)
            /\ ChanCopies(e) + WireCopies(e) = 0
  /\ \A a \in AgentIds : \A i \in DOMAIN pendingEvents[a] :
       ~PastTTL(events[pendingEvents[a][i].event], pendingEvents[a][i].queuedAt)

C6_Witness ==
  \E e1, e2 \in DOMAIN events :
    /\ ret[e1] = "expired"
    /\ ret[e2] = "expired_cannot_queue"

\* The retry worker goes through agent a's bucket in this step.
BucketScanned(a) ==
  /\ wk.pc = "tick"
  /\ a \in wk.todo
  /\ wk' # wk
  /\ a \notin wk'.todo \/ wk'.cur = a

\* C7: an event routed while its target is not registered is queued, with
\* PendingCount(agent) = 1; with the agent then registered, connected and with
\* room in its outbound queue, the retry tick's pass over the bucket delivers
\* the event, fires routed once and leaves PendingCount(agent) = 0.
C7_OfflineTargetDelivered ==
  [][\A a \in AgentIds :
       /\ ( /\ rt.pc = "queue" /\ rt'.pc = "idle"
            /\ events[rt.ev].target = a
            /\ evlog[rt.ev] = <<"lookup_absent">>
            /\ pendingEvents[a] = <<>>
            /\ ~PastTTL(events[rt.ev], now) )
          => /\ GetPendingEventsCount(a)' = 1
             /\ evlog'[rt.ev] = <<"lookup_absent", "enq", "queued">>
       /\ ( /\ BucketScanned(a)
            /\ GetPendingEventsCount(a) = 1
            /\ evlog[pendingEvents[a][1].event]
                 = <<"lookup_absent", "enq", "queued">>
            /\ ~(wk.now > pendingEvents[a][1].expiresAt)
            /\ Lookup(a) = "lookup_connected"
            /\ SendHasRoom(conns[agents[a]]) )
          => /\ GetPendingEventsCount(a)' = 0
             /\ evlog'[pendingEvents[a][1].event]
                  = <<"lookup_absent", "enq", "queued", "sent", "routed">>
             /\ conns'[agents[a]].sendChan
                  = Append(conns[agents[a]].sendChan, pendingEvents[a][1].event)
             /\ wk'.pc # "blocked"]_vars

C7_Witness ==
  \E e \in DOMAIN events :
    /\ evlog[e] = <<"lookup_absent", "enq", "queued", "sent", "routed">>
    /\ GetPendingEventsCount(events[e].target) = 0
    /\ ~RouterLocked

LatestConn(a) ==
  LET cs == {c \in DOMAIN conns : conns[c].agent = a}
  IN IF cs = {} THEN NoConn ELSE CHOOSE c \in cs : \A d \in cs : d <= c

\* C9: once an agent has registered again with the same id on a connection
\* C2, the earlier connection is closed and, for as long as C2's own session
\* runs, the registry maps the id to C2 alone, whose queue is open, so that
\* SendToAgent for the id enqueues on C2's outbound queue.
C9_ReconnectSupersedes ==
  \A a \in AgentIds :
    LET c2 == LatestConn(a)
    IN (c2 # NoConn /\ conns[c2].reader = "running"
        /\ \E c1 \in DOMAIN conns : c1 < c2 /\ conns[c1].agent = a) =>
         /\ agents[a] = c2
         /\ ~conns[c2].chanClosed
         /\ conns[c2].status \in {"connected", "unhealthy"}
         /\ \A c1 \in DOMAIN conns :
              (c1 < c2 /\ conns[c1].agent = a) =>
                conns[c1].chanClosed /\ conns[c1].wsClosed

\* C10: Register with an id already present fires one disconnected callback
\* for the prior record, then one connected callback for the new record, and
\* nothing else; no record gets a second disconnected or connected callback.
C10_TakeoverCallbacks ==
  /\ [](\A c \in DOMAIN conns :
          /\ Count(regLog, [cb |-> "connected", conn |-> c]) = 1
          /\ Count(regLog, [cb |-> "disconnected", conn |-> c]) <= 1)
  /\ [][\A a \in AgentIds :
          (agents[a] # NoConn /\ agents'[a] # NoConn /\ agents'[a] # agents[a])
            => regLog' = regLog \o <<[cb |-> "disconnected", conn |-> agents[a]],
                                     [cb |-> "connected", conn |-> agents'[a]]>>]_vars

C10_Witness ==
  \E i \in DOMAIN regLog : \E c1, c2 \in DOMAIN conns :
    /\ i + 1 \in DOMAIN regLog
    /\ conns[c1].agent = conns[c2].agent
    /\ c1 < c2
    /\ regLog[i] = [cb |-> "disconnected", conn |-> c1]
    /\ regLog[i + 1] = [cb |-> "connected", conn |-> c2]
    /\ agents[conns[c2].agent] = c2

\* C11: Unregister(id) for a registered id returns ok, removes the id from the
\* registry, marks its record disconnected, closes its connection and fires
\* the disconnected callback once; Unregister(id) called again returns
\* not-found, changes nothing and fires no callback.
C11_UnregisterTwice ==
  /\ [](\A a \in AgentIds :
          Registered(a) =>
            LET c == agents[a]
                first == Unregister(agents, conns, regLog, a)
                second == Unregister(first.agents, first.conns, first.regLog, a)
            IN /\ first.res = "ok"
               /\ ~first.panic
               /\ first.agents[a] = NoConn
               /\ \A b \in AgentIds \ {a} : first.agents[b] = agents[b]
               /\ first.conns[c].chanClosed /\ first.conns[c].wsClosed
               /\ first.conns[c].status = "disconnected"
               /\ first.regLog
                    = Append(regLog, [cb |-> "disconnected", conn |-> c])
               /\ second.res = "not_found"
               /\ ~second.panic
               /\ second.agents = first.agents
               /\ second.conns = first.conns
               /\ second.regLog = first.regLog)
  /\ [][\A c \in DOMAIN conns :
          (conns[c].reader = "running" /\ conns'[c].reader = "exited") =>
            LET a == conns[c].agent
            IN IF Registered(a)
                 THEN /\ conns'[c].unreg = "ok"
                      /\ agents' = [agents EXCEPT ![a] = NoConn]
                      /\ conns'[agents[a]].chanClosed
                      /\ conns'[agents[a]].status = "disconnected"
                      /\ regLog' = Append(regLog, [cb |-> "disconnected",
                                                   conn |-> agents[a]])
                 ELSE /\ conns'[c].unreg = "not_found"
                      /\ agents' = agents
                      /\ regLog' = regLog
                      /\ \A d \in DOMAIN conns \ {c} : conns'[d] = conns[d]]_vars

\* Two read loops of one agent id have ended, one after the other.
C11_Witness ==
  \E c1, c2 \in DOMAIN conns :
    /\ c1 # c2
    /\ conns[c1].agent = conns[c2].agent
    /\ conns[c1].unreg = "ok"
    /\ conns[c2].unreg = "not_found"
    /\ agents[conns[c1].agent] = NoConn
    /\ Count(regLog, [cb |-> "disconnected", conn |-> c1])
         + Count(regLog, [cb |-> "disconnected", conn |-> c2]) = 2
    /\ ~panicked

\* C12: on a connection that has been closed, a further Close does not fail
\* abnormally, and a Send returns an error to its caller and leaves the
\* outbound queue as it was.
C12_CloseIdempotentSendFails ==
  \A c \in DOMAIN conns :
    conns[c].chanClosed =>
      /\ ~ClosePanics(conns[c])
      /\ Send(conns[c], RegisteredFrame).res \in {"full", "closed"}
      /\ Send(conns[c], RegisteredFrame).conn = conns[c]

\* C13: no outbound queue ever holds more than its capacity; a Send on an open
\* queue that holds capacity messages returns the full error to the router and
\* leaves the queue as it was, a Send on one with room appends the message;
\* the write loop takes exactly one message at a time from the head, so that
\* after one removal from a full queue one Send succeeds and the next is
\* refused again.
C13_SendBounded ==
  /\ [](\A c \in DOMAIN conns : Len(conns[c].sendChan) <= ChanCap)
  /\ [][(rt.pc = "send" /\ ~conns[rt.conn].chanClosed /\ rt' # rt) =>
          IF Len(conns[rt.conn].sendChan) = ChanCap
            THEN /\ conns' = conns
                 /\ rt'.pc = "queue"
                 /\ evlog'[rt.ev] = Append(evlog[rt.ev], "senderr")
            ELSE /\ conns'[rt.conn].sendChan
                      = Append(conns[rt.conn].sendChan, rt.ev)
                 /\ ret'[rt.ev] = "ok"]_vars
  /\ [][\A c \in DOMAIN conns :
          Len(conns'[c].sendChan) < Len(conns[c].sendChan) =>
            conns'[c].sendChan = Tail(conns[c].sendChan)]_vars

\* A Send refused on a full queue; then, one message written to the stream,
\* the refused event delivered, the queue full again.
C13_Witness ==
  \E e1, e2 \in DOMAIN events : \E c \in DOMAIN conns :
    /\ Has(evlog[e1], "sent")
    /\ Has(conns[c].wire, e1)
    /\ evlog[e2] = <<"lookup_connected", "senderr", "enq", "queued", "sent",
                     "routed">>
    /\ conns[c].sendChan = <<e2>>
    /\ Len(conns[c].sendChan) = ChanCap

\* C14: when the agent RouteEvent looked up as connected is unregistered
\* before the router's SendToAgent has run, SendToAgent returns an error, the
\* router goes on to queueEvent, and the process does not fail: whether the
\* Unregister falls before SendToAgent's registry.Get or between that Get and
\* the Send on the connection it returned.
C14_LookupSendRace ==
  [][/\ (rt.pc = "get" /\ ~Registered(events[rt.ev].target) /\ rt' # rt) =>
          /\ rt'.pc = "queue"
          /\ evlog'[rt.ev] = Append(evlog[rt.ev], "senderr")
          /\ ~panicked'
     /\ (rt.pc = "send" /\ conns[rt.conn].chanClosed
         /\ (rt' # rt \/ panicked' # panicked)) =>
          /\ rt'.pc = "queue"
          /\ evlog'[rt.ev] = Append(evlog[rt.ev], "senderr")
          /\ ~panicked']_vars

\* C15: whenever an event is placed on an agent's outbound queue, by
\* RouteEvent or by the retry worker, the target agent is registered with
\* status connected at that moment; in particular no event is placed on the
\* queue of an agent the liveness sweep has marked unhealthy.
C15_DeliveredOnlyWhenConnected ==
  [][\A e \in DOMAIN evlog :
       Count(evlog'[e], "sent") > Count(evlog[e], "sent") =>
         /\ Registered(events[e].target)
         /\ conns[agents[events[e].target]].status = "connected"]_vars

\* C16: with the liveness sweep run every sweep interval, every registered
\* agent whose status is connected has
\* now - last_heartbeat <= heartbeatTimeout + sweepInterval.
C16_ConnectedIsFresh ==
  \A a \in AgentIds :
    (Registered(a) /\ conns[agents[a]].status = "connected") =>
      now - conns[agents[a]].lastHeartbeat <= HeartbeatTimeout + SweepInterval

\* An agent found stale and marked unhealthy by the sweep, and a connected one
\* beside it, later than the first agent's allowance.
C16_Witness ==
  \E a, b \in AgentIds :
    /\ Registered(a) /\ Registered(b)
    /\ conns[agents[a]].status = "unhealthy"
    /\ now - conns[agents[a]].lastHeartbeat > HeartbeatTimeout + SweepInterval
    /\ conns[agents[b]].status = "connected"
    /\ now - conns[agents[b]].lastHeartbeat > 0

\* C17: a record's status goes from unhealthy to connected only in a step that
\* is UpdateHeartbeat for its id (the record is the one registered under the
\* id, its last-heartbeat becomes now, nothing else of it changes); every
\* UpdateHeartbeat sets last-heartbeat to now and, on an unhealthy record,
\* status connected in the same step; and the sweep that follows a heartbeat
\* leaves the record connected.
C17_HeartbeatRestores ==
  /\ [][\A c \in DOMAIN conns :
          (conns[c].status = "unhealthy" /\ conns'[c].status = "connected") =>
            /\ agents[conns[c].agent] = c
            /\ now' = now
            /\ conns'[c] = [conns[c] EXCEPT !.status = "connected",
                                            !.lastHeartbeat = now]]_vars
  /\ [][\A c \in DOMAIN conns :
          conns'[c].lastHeartbeat # conns[c].lastHeartbeat =>
            /\ conns'[c].lastHeartbeat = now
            /\ conns[c].status = "unhealthy" => conns'[c].status = "connected"
            /\ conns[c].status # "unhealthy" =>
                 conns'[c].status = conns[c].status]_vars
  /\ [][(now' = now + 1 /\ (now + 1) % SweepInterval = 0) =>
          \A c \in DOMAIN conns :
            (conns[c].status = "connected"
             /\ conns[c].lastHeartbeat >= now + 1 - SweepInterval) =>
              conns'[c].status = "connected"]_vars

\* A record the sweep had marked unhealthy, restored by a heartbeat and still
\* connected after the sweep that followed.
C17_Witness ==
  \E c \in DOMAIN conns :
    /\ conns[c].demoted
    /\ conns[c].status = "connected"
    /\ agents[conns[c].agent] = c
    /\ conns[c].lastHeartbeat < now
    /\ now % SweepInterval = 0

NonTerminal == {"created", "queued", "assigned", "in_progress"}

\* C18: once the persisted status of an event is completed, failed or
\* expired, processing a status-update frame that carries a non-terminal state
\* leaves the persisted state as it is.
C18_TerminalStateKept ==
  [][\A e \in DOMAIN store :
       ( /\ IsTerminal(store[e])
         /\ updates' # updates
         /\ updates'[Len(updates')].event = e
         /\ updates'[Len(updates')].frame.state \in NonTerminal )
       => store'[e].state = store[e].state]_vars

\* The frames of the reconciliation scenario.
FrameReceived ==
  [state |-> "in_progress", phase |-> "received", message |-> "",
   logLevel |-> "", result |-> ""]
FrameApplying ==
  [state |-> "in_progress", phase |-> "applying", message |-> "",
   logLevel |-> "info", result |-> ""]
FrameCompleted ==
  [state |-> "completed", phase |-> "completed", message |-> "",
   logLevel |-> "", result |-> "success"]

\* C19: processing a status-update frame for event e takes the stored status,
\* or when there is none a fresh one bound to the session's agent id, replaces
\* state, phase, message and result by the frame's non-empty fields only,
\* appends one log entry exactly when the frame has a log level, persists the
\* result and touches no other record; after the frames (in_progress,
\* received), (in_progress, applying, info), (completed, completed, success)
\* the stored status is completed / completed with a log of length >= 1 and a
\* successful result.
C19_StatusMerge ==
  [][updates' # updates =>
       \A u \in {updates'[Len(updates')]} :
         LET f == u.frame
             e == u.event
             old == IF store[e].state = "none"
                      THEN [agent |-> conns[u.conn].agent, state |-> "assigned",
                            phase |-> "received",
                            message |-> "Event assigned to agent",
                            log |-> 0, result |-> "none"]
                      ELSE store[e]
         IN /\ updates' = Append(updates, u)
            /\ store'[e].agent = old.agent
            /\ store'[e].state = (IF f.state = "" THEN old.state ELSE f.state)
            /\ store'[e].phase = (IF f.phase = "" THEN old.phase ELSE f.phase)
            /\ store'[e].message
                 = (IF f.message = "" THEN old.message ELSE f.message)
            /\ store'[e].result
                 = (IF f.result = "" THEN old.result ELSE f.result)
            /\ store'[e].log
                 = old.log + (IF f.logLevel = "" THEN 0 ELSE 1)
            /\ \A d \in DOMAIN store \ {e} : store'[d] = store[d]
            /\ ( /\ Len(updates) >= 2
                 /\ updates[Len(updates) - 1]
                      = [event |-> e, conn |-> u.conn, frame |-> FrameReceived]
                 /\ updates[Len(updates)]
                      = [event |-> e, conn |-> u.conn, frame |-> FrameApplying]
                 /\ f = FrameCompleted )
               => /\ store'[e].state = "completed"
                  /\ store'[e].phase = "completed"
                  /\ store'[e].log >= 1
                  /\ store'[e].result = "success"]_vars

\* The scenario, on an event that was delivered to a connected agent.
C19_Witness ==
  \E e \in DOMAIN events : \E c \in DOMAIN conns :
    /\ evlog[e] = <<"lookup_connected", "sent", "routed">>
    /\ conns[c].agent = events[e].target
    /\ updates = <<[event |-> e, conn |-> c, frame |-> FrameReceived],
                   [event |-> e, conn |-> c, frame |-> FrameApplying],
                   [event |-> e, conn |-> c, frame |-> FrameCompleted]>>
    /\ store[e].state = "completed"
    /\ store[e].phase = "completed"
    /\ store[e].log = 2
    /\ store[e].result = "success"
    /\ store[e].message = "Event routed to agent"

\* Handler runs that submitted event e: POSTs, and deliveries of queue messages.
SubmissionsOf(e) ==
  Cardinality({i \in DOMAIN http : http[i].event = e})
  + Cardinality(UNION {{<<m, k>> : k \in {j \in DOMAIN station[m].deliveries :
                                            station[m].deliveries[j] = e}} :
                       m \in DOMAIN station})

\* C20: the total-events counter is incremented once by every handler run
\* that hands an event to RouteEvent, and an accepted submission has exactly
\* one such run: a POST answered 202 is one run, and a queue message that is
\* acknowledged after RouteEvent succeeded was delivered once.  A POST answered
\* 400 and a message that does not deserialize increment nothing.
C20_CountedOncePerAccepted ==
  /\ total = Len(events)
  /\ \A e \in DOMAIN events : SubmissionsOf(e) = 1
  /\ \A m \in DOMAIN station :
       /\ ~station[m].wellFormed => station[m].deliveries = <<>>
       /\ (station[m].wellFormed /\ station[m].acked) =>
            /\ Len(station[m].deliveries) = 1
            /\ ret[station[m].deliveries[1]] = "ok"
  /\ total >= Cardinality({i \in DOMAIN http : HttpCode(i) = "202"})
              + Cardinality({m \in DOMAIN station :
                               station[m].wellFormed /\ station[m].acked})

\* One submission accepted on each path, the counter at 2.
C20_Witness ==
  /\ \E i \in DOMAIN http : HttpCode(i) = "202"
  /\ \E m \in DOMAIN station : station[m].wellFormed /\ station[m].acked
  /\ total = 2

\* The return value of the latest RouteEvent call made for message m.
LastReturn(m) == ret[station[m].deliveries[Len(station[m].deliveries)]]

\* C21: queue consumer acknowledgement.  A message that does not deserialize
\* is never handed to the router, and the one thing the consumer does with it
\* is to acknowledge it.  A well-formed message is acknowledged only when the
\* latest RouteEvent call made for it returned success: while that call has
\* returned an error (or has not returned) the message stays unacknowledged,
\* and the broker can deliver it again.
C21_AckAfterRouterSuccess ==
  /\ [](\A m \in DOMAIN station :
          /\ ~station[m].wellFormed => station[m].deliveries = <<>>
          /\ (station[m].wellFormed /\ station[m].acked)
               => station[m].deliveries # <<>> /\ LastReturn(m) = "ok"
          /\ (station[m].deliveries # <<>> /\ LastReturn(m) # "ok")
               => ~station[m].acked)
  /\ [][\A m \in DOMAIN station :
          /\ (~station[m].wellFormed /\ station'[m] # station[m])
               => /\ station'[m].acked
                  /\ events' = events
                  /\ total' = total
          /\ (station[m].wellFormed /\ ~station[m].acked /\ station'[m].acked)
               => /\ station[m].deliveries # <<>>
                  /\ LastReturn(m) = "ok"
                  /\ events' = events]_vars

\* A well-formed message was handed to the router, the router delivered its
\* event and returned success, and the message has been acknowledged.
C21_Witness ==
  \E m \in DOMAIN station :
    /\ station[m].wellFormed
    /\ station[m].acked
    /\ Len(station[m].deliveries) = 1
    /\ LastReturn(m) = "ok"
    /\ Has(evlog[station[m].deliveries[1]], "routed")

\* The registry changed: a Register or an Unregister ran.
RegistryStep == agents' # agents \/ regLog' # regLog \/ Len(conns') # Len(conns)

\* The entries of bucket q a retry pass at instant t neither expires nor fails.
Live(q, t) ==
  SelectSeq(q, LAMBDA p : ~(t > p.expiresAt) /\ p.retries < MaxRetries)

\* C22: connection loss keeps queued work.  Register and Unregister leave
\* the router's pending map as it is; a retry pass over the bucket of an agent
\* that is not connected keeps every entry it neither expires nor fails; and
\* the retry pass that finds the agent connected again, with room in the
\* outbound queue of its present session, puts the entry on that queue and
\* takes it out of the bucket.
C22_PendingSurvivesReconnect ==
  [][/\ RegistryStep => pendingEvents' = pendingEvents
     /\ \A a \in AgentIds :
          /\ (BucketScanned(a) /\ Lookup(a) # "lookup_connected")
               => /\ pendingEvents'[a] = Live(pendingEvents[a], wk.now)
                  /\ wk'.pc # "blocked"
          /\ ( /\ BucketScanned(a)
               /\ Lookup(a) = "lookup_connected"
               /\ \E c \in DOMAIN conns :
                    conns[c].agent = a /\ c < agents[a] /\ conns[c].chanClosed
               /\ Len(pendingEvents[a]) = 1
               /\ Live(pendingEvents[a], wk.now) = pendingEvents[a]
               /\ SendHasRoom(conns[agents[a]]) )
               => /\ pendingEvents'[a] = <<>>
                  /\ conns'[agents[a]].sendChan
                       = Append(conns[agents[a]].sendChan,
                                pendingEvents[a][1].event)
                  /\ \A c \in DOMAIN conns :
                       c # agents[a] => conns'[c].sendChan = conns[c].sendChan]_vars

\* An event queued for an agent that was not registered, delivered by the
\* retry worker to the second session of the agent, whose first session had
\* ended with its Unregister.
C22_Witness ==
  \E e \in DOMAIN events : \E c1, c2 \in DOMAIN conns :
    /\ c1 < c2
    /\ conns[c1].agent = events[e].target
    /\ conns[c2].agent = events[e].target
    /\ conns[c1].unreg = "ok"
    /\ agents[events[e].target] = c2
    /\ evlog[e] = <<"lookup_absent", "enq", "queued", "sent", "routed">>
    /\ Has(conns[c2].sendChan, e)
    /\ ~InPending(e)

\* C23: the agent record is persisted on every transition.  For every agent
\* in the registry, the status in its persisted record is the status of its
\* record in the registry; for an agent that has left the registry, it is the
\* status (disconnected) of its last record.
C23_AgentRecordPersisted ==
  \A a \in AgentIds :
    LET c == IF Registered(a) THEN agents[a] ELSE LatestConn(a)
    IN c # NoConn => SavedAgentStatus(regLog, conns, a) = conns[c].status

\* C24: state index consistency.  For every state S the index set
\* events:state:S holds exactly the ids of the events whose persisted status
\* is in state S, so that an id is a member of at most one index set.
C24_StateIndexConsistent ==
  \A S \in ExecutionStates :
    ListEventsByState(store, S) = {id \in DOMAIN store : store[id].state = S}

\* C25: an event with TTL = 0 is never delivered and never enqueued, at
\* whatever instant now >= created-at RouteEvent gets it: it is on no outbound
\* queue and no stream, in no bucket of the pending map, and RouteEvent does
\* not return success for it.
C25_ZeroTTLNeverRouted ==
  \A e \in DOMAIN events :
    (events[e].ttl = 0 /\ events[e].at >= events[e].createdAt) =>
      /\ ~Has(evlog[e], "sent")
      /\ ~Has(evlog[e], "enq")
      /\ ChanCopies(e) + WireCopies(e) = 0
      /\ ~InPending(e)
      /\ ret[e] # "ok"

\* What the router reports when it takes an entry out of the pending map.
Evictions == {"routed", "expired", "max retries exceeded", "cleared"}

\* C26: bounded residence.  With the clock advancing and the retry worker
\* ticking, every entry of the pending map is eventually removed (here: every
\* entry whose expiry lies before the last clock reading of the run); and an
\* entry leaves the map only by delivery (routed), retry exhaustion (failed,
\* max retries exceeded), expiry (expired) or ClearPending.
C26_BoundedResidence ==
  /\ \A e \in 1..MaxEvents :
       (e \in DOMAIN events /\ InPending(e)
        /\ events[e].createdAt + events[e].ttl < MaxTime)
         ~> ~InPending(e)
  /\ [][\A e \in DOMAIN events :
          (InPending(e) /\ ~InPending(e)')
            => /\ Len(evlog'[e]) = Len(evlog[e]) + 1 + Count(<<evlog'[e][Len(evlog'[e])]>>, "routed")
               /\ evlog'[e][Len(evlog'[e])] \in Evictions]_vars

\* The payload variants of event e that are not empty, by the type they go with.
Variants(e) ==
  {t \in {"k8s_resource", "script", "policy"} :
     \/ t = "k8s_resource" /\ e.manifests # 0
     \/ t = "script" /\ e.script # ""
     \/ t = "policy" /\ e.rules # 0}

\* C27: an event that passes Validate (RouteEvent did not fail it with a
\* validation error) has an id, a target agent and a known type, and exactly
\* one non-empty payload variant, the one of its type.
C27_ValidateExactlyOneVariant ==
  \A e \in DOMAIN events :
    (ret[e] # "validation_error" /\ ~Has(evlog[e], "failed")) =>
      /\ events[e].id # 0
      /\ events[e].target # ""
      /\ events[e].type \in {"k8s_resource", "script", "policy"}
      /\ Variants(events[e]) = {events[e].type}

\* C28: deadlock freedom of the router.  A retry tick that has taken the
\* router lock finishes and releases it, also when a delivery in the tick
\* fails; and a RouteEvent call that has begun returns.
C28_RouterLockReleased ==
  /\ RouterLocked ~> ~RouterLocked
  /\ (rt.pc # "idle") ~> (rt.pc = "idle")

\* C29: session isolation on takeover.  The exit of the read loop of a
\* connection c leaves every other connection c2 as it is: the registry entry
\* that maps an agent to c2 stays, c2's outbound queue and socket are not
\* closed, its record is not marked disconnected, and no disconnected
\* callback fires for it.
C29_ReaderExitIsolated ==
  [][\A c \in DOMAIN conns :
       (conns[c].reader = "running" /\ conns'[c].reader = "exited") =>
         \A c2 \in DOMAIN conns \ {c} :
           /\ agents[conns[c2].agent] = c2 => agents'[conns[c2].agent] = c2
           /\ conns'[c2].chanClosed = conns[c2].chanClosed
           /\ conns'[c2].wsClosed = conns[c2].wsClosed
           /\ conns'[c2].status = conns[c2].status
           /\ Count(regLog', [cb |-> "disconnected", conn |-> c2])
                = Count(regLog, [cb |-> "disconnected", conn |-> c2])]_vars

\* The retry counts of the entries of the pending map that hold event e.
RetriesOf(e) ==
  UNION {{pendingEvents[a][i].retries :
            i \in {j \in DOMAIN pendingEvents[a] :
                      pendingEvents[a][j].event = e}} : a \in AgentIds}

\* C30: every entry p of the pending map has 0 <= p.retries <= maxRetries and
\* p.expires_at = p.event.created_at + p.event.TTL; an entry enters the map
\* with retries = 0, and the retries of an entry change only by +1, in a step
\* of the retry worker that notes a failed delivery of its event.
C30_PendingEntryInvariant ==
  /\ [](\A a \in AgentIds : \A i \in DOMAIN pendingEvents[a] :
          /\ pendingEvents[a][i].retries \in 0..MaxRetries
          /\ pendingEvents[a][i].expiresAt
               = events[pendingEvents[a][i].event].createdAt
                 + events[pendingEvents[a][i].event].ttl)
  /\ [][\A e \in DOMAIN events :
          /\ (~InPending(e) /\ InPending(e)') => RetriesOf(e)' = {0}
          /\ (InPending(e) /\ InPending(e)' /\ RetriesOf(e)' # RetriesOf(e))
               => /\ RetriesOf(e)' = {r + 1 : r \in RetriesOf(e)}
                  /\ wk.pc = "tick"
                  /\ evlog'[e] = Append(evlog[e], "retry_senderr")]_vars

\* An entry queued after its event was created, still pending at a later
\* instant, with the router lock free.
C30_Witness ==
  \E a \in AgentIds : \E i \in DOMAIN pendingEvents[a] :
    LET p == pendingEvents[a][i]
    IN /\ p.retries = 0
       /\ p.queuedAt > events[p.event].createdAt
       /\ p.expiresAt = events[p.event].createdAt + events[p.event].ttl
       /\ p.expiresAt # p.queuedAt + events[p.event].ttl
       /\ now > p.queuedAt
       /\ ~RouterLocked

\* C31: a retry pass over the bucket of an agent that is absent from the
\* registry or not connected keeps every entry that is neither expired nor at
\* max retries, as it is (retries included) and in its place; no delivery is
\* attempted and nothing is reported for such an entry.  After any pass the
\* entries left in the bucket are in the order they had before it.
C31_OfflineEntriesKept ==
  [][\A a \in AgentIds :
       (BucketScanned(a) /\ wk'.pc # "blocked") =>
         /\ pendingEvents'[a]
              = SelectSeq(pendingEvents[a],
                          LAMBDA p : Has(pendingEvents'[a], p))
         /\ Lookup(a) # "lookup_connected" =>
              /\ pendingEvents'[a] = Live(pendingEvents[a], wk.now)
              /\ conns' = conns
              /\ \A i \in DOMAIN pendingEvents'[a] :
                   \A e \in {pendingEvents'[a][i].event} :
                     /\ evlog'[e] = evlog[e]
                     /\ store'[e] = store[e]]_vars

\* Two events queued for an agent that is not registered; a retry pass has
\* dropped the second as expired and kept the first, untouched.
C31_Witness ==
  \E a \in AgentIds :
    /\ ~Registered(a)
    /\ Len(events) = 2
    /\ events[1].target = a
    /\ events[2].target = a
    /\ evlog[1] = <<"lookup_absent", "enq", "queued">>
    /\ evlog[2] = <<"lookup_absent", "enq", "queued", "expired">>
    /\ Len(pendingEvents[a]) = 1
    /\ pendingEvents[a][1].event = 1
    /\ pendingEvents[a][1].retries = 0
    /\ ~RouterLocked

\* C32: one writer per outbound queue.  The write loop of a session drains
\* the outbound queue of its own connection and of no other, so that no queue
\* has two writers and a message taken from a queue is written to the stream
\* of the connection the queue belongs to.
C32_WriterOwnsItsQueue ==
  /\ \A c \in DOMAIN conns :
       conns[c].writer = "running" => conns[c].wsrc = c
  /\ \A c, d \in DOMAIN conns :
       (conns[c].writer = "running" /\ conns[d].writer = "running"
        /\ conns[c].wsrc = conns[d].wsrc) => c = d

\* C33: when the read loop of a session returns, the agent is absent from the
\* registry, the disconnected callback has fired for the session's record, and
\* the session's outbound queue and socket are closed; and from then on the
\* session's write loop eventually terminates (or the process has died).
C33_ReaderExitEndsSession ==
  /\ [][\A c \in DOMAIN conns :
          (conns[c].reader = "running" /\ conns'[c].reader = "exited") =>
            /\ agents'[conns[c].agent] = NoConn
            /\ conns'[c].chanClosed
            /\ conns'[c].wsClosed
            /\ Count(regLog', [cb |-> "disconnected", conn |-> c]) = 1]_vars
  /\ \A c \in 1..MaxSessions :
       (IF c \in DOMAIN conns THEN conns[c].reader = "exited" ELSE FALSE)
         ~> (IF c \in DOMAIN conns THEN conns[c].writer = "done" \/ panicked
                                   ELSE FALSE)

\* C34: a session whose first frame does not decode, or whose registration
\* fails validation, sends one error frame and closes; it leaves the registry
\* as it is (no agent added, none closed), fires no callback and starts no
\* read or write loop.
C34_RejectedRegistration ==
  /\ [](\A i \in DOMAIN rejected :
          /\ rejected[i].wire = <<ErrorFrame>>
          /\ rejected[i].closed)
  /\ [][Len(rejected') > Len(rejected) =>
          /\ agents' = agents
          /\ conns' = conns
          /\ regLog' = regLog]_vars

\* A step on which some record goes from connected to unhealthy.
Demotes ==
  \E c \in DOMAIN conns :
    conns[c].status = "connected" /\ conns'[c].status = "unhealthy"

\* C35: a liveness sweep changes nothing but the status of stale connected
\* agents: on a step that demotes a record, the map, the callback log, the
\* pending map and every record's agent, last heartbeat, outbound queue,
\* stream and closed flags are as before, and each record whose status changed
\* was in the map, connected and stale.  An unhealthy agent is counted by
\* Count and listed by List, but not by ListConnected.
C35_SweepOnlyDemotes ==
  /\ [][Demotes =>
          /\ agents' = agents
          /\ regLog' = regLog
          /\ pendingEvents' = pendingEvents
          /\ DOMAIN conns' = DOMAIN conns
          /\ \A c \in DOMAIN conns :
               /\ conns'[c].agent = conns[c].agent
               /\ conns'[c].lastHeartbeat = conns[c].lastHeartbeat
               /\ conns'[c].sendChan = conns[c].sendChan
               /\ conns'[c].wire = conns[c].wire
               /\ conns'[c].chanClosed = conns[c].chanClosed
               /\ conns'[c].wsClosed = conns[c].wsClosed
               /\ conns'[c].status # conns[c].status =>
                    /\ agents[conns[c].agent] = c
                    /\ Stale(conns[c], now)
                    /\ conns'[c].status = "unhealthy"]_vars
  /\ [](\A c \in DOMAIN conns :
          (agents[conns[c].agent] = c /\ conns[c].status = "unhealthy") =>
            /\ c \in List
            /\ c \notin ListConnected
            /\ AgentCount = Cardinality(List))

\* A sweep has demoted the record in the map while a message waited on its
\* outbound queue and an event waited in the pending map.
C35_Witness ==
  \E c \in DOMAIN conns :
    /\ agents[conns[c].agent] = c
    /\ conns[c].status = "unhealthy"
    /\ conns[c].sendChan # <<>>
    /\ \E a \in AgentIds : pendingEvents[a] # <<>>

\* The four progress updates, in the order of handleEvent.
ProgressUpdates ==
  <<Update("in_progress", "received"), Update("in_progress", "validating"),
    Update("in_progress", "applying"), Update("in_progress", "verifying")>>
TerminalUpdates == {Update("completed", "completed"), Update("failed", "failed")}
\* The updates of handler h on the agent's connection, in stream order.
OnStream(h) ==
  LET mine == SelectSeq(exec.stream, LAMBDA f : f.handler = h)
  IN  [k \in DOMAIN mine |-> mine[k].update]

\* C36: for each event an agent handles, the updates it emits are the
\* progress updates received, validating, applying, verifying in that order,
\* cut short by a failure and closed by one terminal update: every update but
\* the last is the progress update of its position, the last is that or a
\* terminal one; a handler that returned emitted a terminal update last; an
\* event that fails validation gets received and failed and nothing else, a
\* completed one got all four progress updates; the connection carries the
\* handler's updates in the order emitted.
C36_ExecutionOrder ==
  \A h \in DOMAIN exec.handlers :
    LET r == exec.handlers[h]
        n == Len(r.emitted)
    IN  r.decoded =>
          /\ \A k \in 1..n :
               \/ k <= 4 /\ r.emitted[k] = ProgressUpdates[k]
               \/ k = n /\ r.emitted[k] \in TerminalUpdates
          /\ r.pc = "done" => n >= 1 /\ r.emitted[n] \in TerminalUpdates
          /\ (r.pc = "done" /\ Validate(r.event) # "ok") =>
               r.emitted = <<ProgressUpdates[1], Update("failed", "failed")>>
          /\ (n >= 1 /\ r.emitted[n] = Update("completed", "completed")) =>
               n = 5
          /\ Len(OnStream(h)) <= n
          /\ OnStream(h) = SubSeq(r.emitted, 1, Len(OnStream(h)))

\* Two handlers ran at the same time and returned, one after a failed
\* validation and one after a completed execution.
C36_Witness ==
  /\ Len(exec.handlers) = 2
  /\ \A h \in 1..2 : exec.handlers[h].pc = "done" /\ exec.handlers[h].decoded
  /\ \E h \in 1..2 : Len(exec.handlers[h].emitted) = 2
  /\ \E h \in 1..2 : Len(exec.handlers[h].emitted) = 5
  /\ \E k \in 2..Len(exec.stream) :
       exec.stream[k].handler = 1 /\ exec.stream[k - 1].handler = 2
  /\ \E k \in 2..Len(exec.stream) :
       exec.stream[k].handler = 2 /\ exec.stream[k - 1].handler = 1

\* C37: once a status update of the agent is persisted for an event (its
\* record is in_progress, completed or failed), no step takes the record to
\* state assigned or shortens its execution log.
C37_RoutedNeverRegresses ==
  [][\A e \in DOMAIN store :
       ((\E i \in DOMAIN updates : updates[i].event = e)
          /\ store[e].state \in {"in_progress", "completed", "failed"}) =>
         /\ store'[e].state # "assigned"
         /\ store'[e].log >= store[e].log]_vars

\* C38: an event whose routed callback has fired is on the outbound queue of
\* a connection, or on the stream of a connection of its target agent, or in
\* the pending map: a message is not taken off a queue without being written.
C38_NoLossAfterRouted ==
  \A e \in DOMAIN events :
    Has(evlog[e], "routed") =>
      \/ \E c \in DOMAIN conns : Has(conns[c].sendChan, e)
      \/ \E c \in DOMAIN conns :
           conns[c].agent = events[e].target /\ Has(conns[c].wire, e)
      \/ \E a \in AgentIds : \E i \in DOMAIN pendingEvents[a] :
           pendingEvents[a][i].event = e

\* C39: on every session the registered frame is the first frame of the
\* stream and occurs once: a stream that holds a frame starts with the
\* confirmation, and every frame after it is an event frame.
C39_ConfirmationFirst ==
  \A c \in DOMAIN conns :
    conns[c].wire # <<>> =>
      /\ conns[c].wire[1] = RegisteredFrame
      /\ \A k \in 2..Len(conns[c].wire) : conns[c].wire[k] # RegisteredFrame

\* An event was put on a session's queue between Register and the spawn of
\* its loops, and has been written to the stream after the confirmation.
C39_Witness ==
  \E c \in DOMAIN conns :
    /\ conns[c].backlog > 0
    /\ Len(conns[c].wire) >= 2

\* C40: every record in the registry map is connected or unhealthy, never
\* disconnected; a record becomes disconnected only in a step of the registry
\* that takes it out of the map (removes it or puts a new record under its
\* id); and every record that is not disconnected is the one the map holds
\* for its id, so that an id has at most one connection that is not closed
\* down.
C40_MappedRecordsAreLive ==
  /\ [](\A a \in AgentIds :
          Registered(a) =>
            /\ conns[agents[a]].status \in {"connected", "unhealthy"}
            /\ conns[agents[a]].agent = a)
  /\ [](\A c \in DOMAIN conns :
          conns[c].status # "disconnected" => agents[conns[c].agent] = c)
  /\ [][\A c \in DOMAIN conns :
          (conns[c].status # "disconnected"
             /\ conns'[c].status = "disconnected") =>
            /\ agents[conns[c].agent] = c
            /\ agents'[conns[c].agent] # c]_vars

\* A session of an agent was replaced by another one, its read loop still
\* running, and the sweep has marked the new record unhealthy.
C40_Witness ==
  \E a \in AgentIds :
    /\ Registered(a)
    /\ conns[agents[a]].status = "unhealthy"
    /\ \E c \in DOMAIN conns :
         /\ c # agents[a]
         /\ conns[c].agent = a
         /\ conns[c].status = "disconnected"
         /\ conns[c].reader = "running"

====
